---- MODULE Spec2Model ----
(***************************************************************************)
(* Model of the password strength analysers of DMS-Quantum:                *)
(*   q-password.py   : QuantumPasswordAnalyzer (analysis from parameters)  *)
(*   q-passwordv3.py : QuantumAuthTool (analysis from a password string)   *)
(* Python integers are unbounded and Python floats are IEEE-754 doubles;   *)
(* both are modelled exactly: integers as limb sequences, floats as a      *)
(* 53-bit mantissa and a binary exponent with round-to-nearest-even.       *)
(***************************************************************************)
EXTENDS Integers, Sequences, FiniteSets, TLC

(***************************************************************************)
(* Unbounded naturals (Python int): little-endian limbs in base 2^15, no   *)
(* most-significant zero limb; zero is the empty sequence.  The carry      *)
(* chains are evaluated by halving the limb range, which keeps the         *)
(* evaluation depth logarithmic in the size of the number.                 *)
(***************************************************************************)
LimbBits == 14 + 1
BASE == 2^15

RECURSIVE Pow2(_)
Pow2(n) == IF n = 0 THEN 1 ELSE 2 * Pow2(n - 1)

LimbAt(a, i) == IF i <= Len(a) THEN a[i] ELSE 0

MaxOf(x, y) == IF x >= y THEN x ELSE y

\* highest index in lo..hi holding a nonzero limb, 0 when there is none
RECURSIVE TopNonZero(_, _, _)
TopNonZero(a, lo, hi) ==
  IF lo > hi THEN 0
  ELSE IF lo = hi THEN (IF a[lo] # 0 THEN lo ELSE 0)
  ELSE LET mid == (lo + hi) \div 2
           h == TopNonZero(a, mid + 1, hi)
       IN IF h # 0 THEN h ELSE TopNonZero(a, lo, mid)

BigTrim(a) == SubSeq(a, 1, TopNonZero(a, 1, Len(a)))

RECURSIVE BigFromInt(_)
BigFromInt(n) == IF n = 0 THEN << >> ELSE <<n % BASE>> \o BigFromInt(n \div BASE)

BigOne == <<1>>

\* value of a bignum known to fit in a machine integer of the checker
RECURSIVE BigToInt(_)
BigToInt(a) == IF a = << >> THEN 0 ELSE a[1] + BASE * BigToInt(Tail(a))

RECURSIVE BigCmpRange(_, _, _, _)
BigCmpRange(a, b, lo, hi) ==
  IF lo > hi THEN 0
  ELSE IF lo = hi
    THEN (IF a[lo] < b[lo] THEN -1 ELSE IF a[lo] > b[lo] THEN 1 ELSE 0)
  ELSE LET mid == (lo + hi) \div 2
           h == BigCmpRange(a, b, mid + 1, hi)
       IN IF h # 0 THEN h ELSE BigCmpRange(a, b, lo, mid)

\* -1, 0, 1 as a < b, a = b, a > b
BigCmp(a, b) ==
  IF Len(a) < Len(b) THEN -1
  ELSE IF Len(a) > Len(b) THEN 1
  ELSE BigCmpRange(a, b, 1, Len(a))

BigLt(a, b) == BigCmp(a, b) < 0
BigLe(a, b) == BigCmp(a, b) <= 0

\* limbs lo..hi of a + b + carry c: <<limbs, carry out>>
RECURSIVE BigAddRange(_, _, _, _, _)
BigAddRange(a, b, c, lo, hi) ==
  IF lo = hi
    THEN LET s == LimbAt(a, lo) + LimbAt(b, lo) + c
         IN << <<s % BASE>>, s \div BASE >>
  ELSE LET mid == (lo + hi) \div 2
           L == BigAddRange(a, b, c, lo, mid)
       IN IF L[2] >= 0
            THEN LET H == BigAddRange(a, b, L[2], mid + 1, hi)
                 IN << L[1] \o H[1], H[2] >>
            ELSE L

\* the limbs r[1] extended by the carry out r[2]
WithCarry(r) == IF r[2] = 0 THEN r[1] ELSE Append(r[1], r[2])

BigAdd(a, b) ==
  IF a = << >> THEN b
  ELSE IF b = << >> THEN a
  ELSE WithCarry(BigAddRange(a, b, 0, 1, MaxOf(Len(a), Len(b))))

\* limbs lo..hi of a - b - borrow c: <<limbs, borrow out>>
RECURSIVE BigSubRange(_, _, _, _, _)
BigSubRange(a, b, c, lo, hi) ==
  IF lo = hi
    THEN LET d == LimbAt(a, lo) - LimbAt(b, lo) - c
         IN << <<IF d < 0 THEN d + BASE ELSE d>>, IF d < 0 THEN 1 ELSE 0 >>
  ELSE LET mid == (lo + hi) \div 2
           L == BigSubRange(a, b, c, lo, mid)
       IN IF L[2] >= 0
            THEN LET H == BigSubRange(a, b, L[2], mid + 1, hi)
                 IN << L[1] \o H[1], H[2] >>
            ELSE L

\* a - b for a >= b
BigSub(a, b) ==
  IF b = << >> THEN a ELSE BigTrim(BigSubRange(a, b, 0, 1, Len(a))[1])

\* limbs lo..hi of a * k + carry c, for machine-size k < 2^15
RECURSIVE BigMulSmallRange(_, _, _, _, _)
BigMulSmallRange(a, k, c, lo, hi) ==
  IF lo = hi
    THEN LET p == a[lo] * k + c
         IN << <<p % BASE>>, p \div BASE >>
  ELSE LET mid == (lo + hi) \div 2
           L == BigMulSmallRange(a, k, c, lo, mid)
       IN IF L[2] >= 0
            THEN LET H == BigMulSmallRange(a, k, L[2], mid + 1, hi)
                 IN << L[1] \o H[1], H[2] >>
            ELSE L

BigMulSmall(a, k) ==
  IF k = 0 \/ a = << >> THEN << >>
  ELSE WithCarry(BigMulSmallRange(a, k, 0, 1, Len(a)))

\* limbs hi..lo of a divided by machine-size d (0 < d <= 2^15) with incoming
\* remainder r: <<quotient limbs, remainder>>
RECURSIVE BigDivSmallRange(_, _, _, _, _)
BigDivSmallRange(a, d, r, lo, hi) ==
  IF lo = hi
    THEN LET cur == r * BASE + a[lo]
         IN << <<cur \div d>>, cur % d >>
  ELSE LET mid == (lo + hi) \div 2
           H == BigDivSmallRange(a, d, r, mid + 1, hi)
       IN IF H[2] >= 0
            THEN LET L == BigDivSmallRange(a, d, H[2], lo, mid)
                 IN << L[1] \o H[1], L[2] >>
            ELSE H

\* the quotient limbs r[1] without leading zeros, and the remainder r[2]
TrimQuotient(r) == << BigTrim(r[1]), r[2] >>

\* <<floor(a / d), a mod d>>
BigDivSmall(a, d) ==
  IF a = << >> THEN << << >>, 0 >>
  ELSE TrimQuotient(BigDivSmallRange(a, d, 0, 1, Len(a)))

\* number of bits of n (0 for zero)
RECURSIVE IntBitLen(_)
IntBitLen(n) == IF n = 0 THEN 0 ELSE 1 + IntBitLen(n \div 2)

BigBitLen(a) ==
  IF a = << >> THEN 0 ELSE LimbBits * (Len(a) - 1) + IntBitLen(a[Len(a)])

\* bit i (0 = least significant) of a
BigBit(a, i) == (LimbAt(a, (i \div LimbBits) + 1) \div Pow2(i % LimbBits)) % 2

\* a * 2^s
BigShl(a, s) ==
  IF a = << >> THEN << >>
  ELSE [i \in 1..(s \div LimbBits) |-> 0] \o BigMulSmall(a, Pow2(s % LimbBits))

\* floor(a / 2^s)
BigShr(a, s) ==
  IF s \div LimbBits >= Len(a) THEN << >>
  ELSE BigDivSmall(SubSeq(a, (s \div LimbBits) + 1, Len(a)), Pow2(s % LimbBits))[1]

\* TRUE iff a mod 2^s # 0
BigLowBitsNonZero(a, s) ==
  \/ \E i \in 1..Len(a) : i <= s \div LimbBits /\ a[i] # 0
  \/ LimbAt(a, (s \div LimbBits) + 1) % Pow2(s % LimbBits) # 0

\* 2^s
BigPow2(s) == BigShl(BigOne, s)

\* the limb d brought down below the remainder r: r * 2^15 + d
BringDown(d, r) == IF r = << >> /\ d = 0 THEN << >> ELSE <<d>> \o r

\* the quotient digit of r by b, given an estimate qhat that is at most two
\* above it (b has its top bit set, r < b * 2^15)
DigitFrom(b, r, qhat) ==
  IF BigLe(BigMulSmall(b, qhat), r) THEN qhat
  ELSE IF BigLe(BigMulSmall(b, qhat - 1), r) THEN qhat - 1
  ELSE qhat - 2

\* the estimate from the two top limbs of r and the top limb of b
DigitEstimate(b, r) ==
  (LimbAt(r, Len(b) + 1) * BASE + LimbAt(r, Len(b))) \div b[Len(b)]

QuotientDigit(b, r) ==
  DigitFrom(b, r, IF DigitEstimate(b, r) < BASE THEN DigitEstimate(b, r) ELSE BASE - 1)

\* the quotient q extended by the digit d, and what is left of r
TakeDigit(b, q, r, d) == << <<d>> \o q, BigSub(r, BigMulSmall(b, d)) >>

\* one step of long division: bring down limb i of a
BigDivStep(a, b, st, i) ==
  TakeDigit(b, st[1], BringDown(a[i], st[2]), QuotientDigit(b, BringDown(a[i], st[2])))

\* limbs hi down to lo of a, from the state st = <<quotient, remainder>>
RECURSIVE BigDivFold(_, _, _, _, _)
BigDivFold(a, b, st, lo, hi) ==
  IF lo > hi THEN st
  ELSE IF lo = hi THEN BigDivStep(a, b, st, lo)
  ELSE LET mid == (lo + hi) \div 2
           H == BigDivFold(a, b, st, mid + 1, hi)
       IN IF Len(H) = 2 THEN BigDivFold(a, b, H, lo, mid) ELSE H

\* <<floor(a / b), a mod b>> for b with its top bit set
BigDivNormal(a, b) == BigDivFold(a, b, << << >>, << >> >>, 1, Len(a))

\* the quotient without leading zeros and the remainder scaled back by 2^k
Unscale(st, k) == << BigTrim(st[1]), BigShr(st[2], k) >>

\* <<floor(a / b), a mod b>> after scaling both by 2^k
BigDivScaled(a, b, k) == Unscale(BigDivNormal(BigShl(a, k), BigShl(b, k)), k)

\* <<floor(a / b), a mod b>> for b > 0
BigDivMod(a, b) == BigDivScaled(a, b, LimbBits - IntBitLen(b[Len(b)]))

\* floor(sqrt(n)) for 0 <= n < 2^30, bit by bit from r
RECURSIVE IntSqrtFold(_, _, _)
IntSqrtFold(n, r, bit) ==
  IF bit < 0 THEN r
  ELSE IntSqrtFold(n, IF (r + Pow2(bit)) * (r + Pow2(bit)) <= n THEN r + Pow2(bit) ELSE r,
                   bit - 1)
IntSqrt(n) == IntSqrtFold(n, 0, LimbBits - 1)

\* a first value at or above sqrt(a), from the top bits of a above an even shift
SqrtEstimate(a, shift) ==
  BigShl(BigFromInt(IntSqrt(BigToInt(BigShr(a, shift))) + 1), shift \div 2)
EvenShift(bl) == IF bl <= 30 THEN 0 ELSE 2 * ((bl - 29) \div 2)

\* Newton's iteration from x >= floor(sqrt(a)); qr is the division of a by x.
\* The result is <<floor(sqrt(a)), whether a is not a perfect square>>
RECURSIVE NewtonSqrt(_, _, _)
NewtonNext(a, x, qr, y) ==
  IF BigLt(y, x) THEN NewtonSqrt(a, y, BigDivMod(a, y))
  ELSE << x, ~(qr[1] = x /\ qr[2] = << >>) >>
NewtonSqrt(a, x, qr) == NewtonNext(a, x, qr, BigShr(BigAdd(x, qr[1]), 1))

BigSqrtFrom(a, x) == NewtonSqrt(a, x, BigDivMod(a, x))

\* <<floor(sqrt(a)), whether a is not a perfect square>>
BigIsqrt(a) ==
  IF a = << >> THEN << << >>, FALSE >>
  ELSE BigSqrtFrom(a, SqrtEstimate(a, EvenShift(BigBitLen(a))))

\* acc * k^n for machine-size k < 2^15, n >= 0
RECURSIVE BigPowFold(_, _, _)
BigPowFold(acc, k, n) ==
  IF n = 0 THEN acc
  ELSE IF n = 1 THEN BigMulSmall(acc, k)
  ELSE LET h == BigPowFold(acc, k, n \div 2)
       IN IF h # << >> THEN BigPowFold(h, k, n - n \div 2) ELSE h

\* k^n (Python: k ** n for int k >= 0, int n >= 0; 0 ** 0 = 1)
BigPow(k, n) == BigPowFold(BigOne, k, n)

(***************************************************************************)
(* Python float: an IEEE-754 binary64 number.  A nonzero finite value is   *)
(* m * 2^e with 2^52 <= m < 2^53 (m a bignum) and a sign; zero has m = 0.  *)
(* Every operation rounds the exact result to nearest, ties to even.       *)
(* Subnormal results (below 2^-1022) are outside every input drawn here.   *)
(***************************************************************************)
MantBits == 52 + 1
\* largest exponent e of a finite double m * 2^e: (2^53 - 1) * 2^971
FloatMaxExp == 1023 - 52

FloatZero == [neg |-> FALSE, m |-> << >>, e |-> 0]

\* the double nearest to (M + t) * 2^e, where 0 <= t < 1 and t > 0 iff sticky
\* (sticky requires M to have more than 53 bits)
\* top rounded to nearest, ties to even: half is the first dropped bit and
\* rest tells whether anything nonzero follows it
RoundTop(top, half, rest) ==
  IF half /\ (rest \/ BigBit(top, 0) = 1) THEN BigAdd(top, BigOne) ELSE top

\* floor(M / 2^s) rounded to nearest, ties to even (s >= 1)
RoundShift(M, s, sticky) ==
  RoundTop(BigShr(M, s), BigBit(M, s - 1) = 1, BigLowBitsNonZero(M, s - 1) \/ sticky)

\* the float r * 2^e for a rounded mantissa r (2^53 after a carry out)
Renorm(r, e) ==
  IF BigBitLen(r) > MantBits
    THEN [neg |-> FALSE, m |-> BigShr(r, 1), e |-> e + 1]
    ELSE [neg |-> FALSE, m |-> r, e |-> e]

\* the float M * 2^e for M of bl <= 53 bits: exact
ExactBits(M, e, bl) ==
  IF bl = 0 THEN FloatZero
  ELSE [neg |-> FALSE, m |-> BigShl(M, MantBits - bl), e |-> e - (MantBits - bl)]

\* RoundBig for M of bl bits
RoundBits(M, e, sticky, bl) ==
  IF bl <= MantBits THEN ExactBits(M, e, bl)
  ELSE Renorm(RoundShift(M, bl - MantBits, sticky), e + (bl - MantBits))

RoundBig(M, e, sticky) == RoundBits(M, e, sticky, BigBitLen(M))

FIsZero(x) == x.m = << >>
FNeg(x) == IF FIsZero(x) THEN x ELSE [x EXCEPT !.neg = ~x.neg]
\* the magnitude q with the sign neg
FSign(q, neg) == IF neg THEN FNeg(q) ELSE q

\* float(N) for an int N >= 0; Python raises OverflowError unless FloatFits
FromBig(N) == RoundBig(N, 0, FALSE)
FloatFits(x) == x.e <= FloatMaxExp
\* int N converts to a float without OverflowError
BigFitsFloat(N) == BigBitLen(N) <= 1024 /\ FloatFits(FromBig(N))

\* float(n) for a machine-size int n
FromNat(n) == ExactBits(BigFromInt(n), 0, IntBitLen(n))
FromInt(n) == FSign(FromNat(IF n < 0 THEN -n ELSE n), n < 0)

\* -1, 0, 1 comparing the magnitudes of x and y
FCmpMag(x, y) ==
  IF FIsZero(x) THEN (IF FIsZero(y) THEN 0 ELSE -1)
  ELSE IF FIsZero(y) THEN 1
  ELSE IF x.e < y.e THEN -1
  ELSE IF x.e > y.e THEN 1
  ELSE BigCmp(x.m, y.m)

\* -1, 0, 1 as x < y, x = y, x > y
FCmp(x, y) ==
  IF x.neg /\ ~y.neg THEN -1
  ELSE IF ~x.neg /\ y.neg THEN 1
  ELSE IF x.neg THEN FCmpMag(y, x)
  ELSE FCmpMag(x, y)

FLt(x, y) == FCmp(x, y) < 0
FLe(x, y) == FCmp(x, y) <= 0

\* the correctly rounded quotient (A * 2^ea) / (B * 2^eb) of exact operands,
\* A >= 0 and B > 0 bignums: 56 or 57 quotient bits and a sticky bit are kept
\* the double nearest to (qr[1] + t) * 2^e, where t > 0 iff the remainder
\* qr[2] is nonzero or bits were lost before
RoundPair(qr, e, lost) == RoundBig(qr[1], e, lost \/ qr[2] # << >>)

\* DivRound with the dividend scaled by 2^s
DivShift(A, ea, B, eb, s) ==
  RoundPair(BigDivMod(IF s >= 0 THEN BigShl(A, s) ELSE BigShr(A, -s), B),
            ea - eb - s, s < 0 /\ BigLowBitsNonZero(A, -s))

DivRound(A, ea, B, eb) ==
  IF A = << >> THEN FloatZero
  ELSE DivShift(A, ea, B, eb, 56 - (BigBitLen(A) - BigBitLen(B)))

\* x / y for floats, y # 0
FDiv(x, y) == FSign(DivRound(x.m, x.e, y.m, y.e), x.neg # y.neg)

\* Python int / int (true division): the exact quotient rounded once
IntTrueDiv(N, D) == DivRound(N, 0, D, 0)
\* N / D raises OverflowError unless this holds (D > 0)
QuotientFits(N, D, q) == BigBitLen(N) - BigBitLen(D) <= 1025 /\ FloatFits(q)

\* math.sqrt(x) for a float x >= 0
\* the double nearest to sqrt(a) * 2^e, sr being BigIsqrt(a)
RoundRoot(sr, e) == RoundBig(sr[1], e, sr[2])
FSqrt(x) ==
  IF FIsZero(x) THEN FloatZero
  ELSE RoundRoot(BigIsqrt(BigShl(IF x.e % 2 # 0 THEN BigMulSmall(x.m, 2) ELSE x.m, 54)),
                 ((IF x.e % 2 # 0 THEN x.e - 1 ELSE x.e) - 54) \div 2)

\* float(n) * x for a machine-size int n, |n| < 2^15
FMulInt(n, x) ==
  FSign(RoundBig(BigMulSmall(x.m, IF n < 0 THEN -n ELSE n), x.e, FALSE), (n < 0) # x.neg)

MkFloat(m, e) == [neg |-> FALSE, m |-> m, e |-> e]

\* math.log2(k) for the int k: the binary64 values returned for the alphabet
\* sizes the two analysers can produce
Log2(k) ==
  CASE k = 1 -> FloatZero
    [] k = 8 -> MkFloat(<<0, 0, 0, 192>>, -51)
    [] k = 10 -> MkFloat(<<9073, 4851, 19772, 212>>, -51)
    [] k = 11 -> MkFloat(<<23874, 30732, 13225, 221>>, -51)
    [] k = 18 -> MkFloat(<<24244, 9119, 14339, 133>>, -50)
    [] k = 26 -> MkFloat(<<28953, 9105, 13568, 150>>, -50)
    [] k = 27 -> MkFloat(<<19982, 30063, 5124, 152>>, -50)
    [] k = 32 -> MkFloat(<<0, 0, 0, 160>>, -50)
    [] k = 33 -> MkFloat(<<7675, 19926, 13782, 161>>, -50)
    [] k = 34 -> MkFloat(<<9292, 14294, 26175, 162>>, -50)
    [] k = 36 -> MkFloat(<<24244, 9119, 14339, 165>>, -50)
    [] k = 37 -> MkFloat(<<10085, 25307, 23019, 166>>, -50)
    [] k = 42 -> MkFloat(<<29041, 20771, 18158, 172>>, -50)
    [] k = 43 -> MkFloat(<<2090, 32487, 20986, 173>>, -50)
    [] k = 44 -> MkFloat(<<11937, 31750, 22996, 174>>, -50)
    [] k = 52 -> MkFloat(<<28953, 9105, 13568, 182>>, -50)
    [] k = 53 -> MkFloat(<<16618, 30099, 9615, 183>>, -50)
    [] k = 58 -> MkFloat(<<9819, 9173, 14922, 187>>, -50)
    [] k = 59 -> MkFloat(<<13323, 10424, 8014, 188>>, -50)
    [] k = 60 -> MkFloat(<<16659, 23369, 671, 189>>, -50)
    [] k = 62 -> MkFloat(<<19790, 11480, 17507, 190>>, -50)
    [] k = 63 -> MkFloat(<<24779, 8947, 8944, 191>>, -50)
    [] k = 68 -> MkFloat(<<9292, 14294, 26175, 194>>, -50)
    [] k = 69 -> MkFloat(<<13999, 4613, 15492, 195>>, -50)
    [] k = 70 -> MkFloat(<<21455, 2253, 4491, 196>>, -50)
    [] k = 84 -> MkFloat(<<29041, 20771, 18158, 204>>, -50)
    [] k = 85 -> MkFloat(<<30213, 16719, 3293, 205>>, -50)
    [] k = 94 -> MkFloat(<<14850, 18341, 24472, 209>>, -50)
    [] k = 95 -> MkFloat(<<25849, 29961, 7712, 210>>, -50)

\* round(x, 2): the decimal x rounded half-even to hundredths on its exact
\* value, then the double nearest to that decimal
\* M / 2^s rounded half-even to an integer
RoundHalfEven(M, s) == IF s <= 0 THEN BigShl(M, -s) ELSE RoundShift(M, s, FALSE)

PyRound2(x) ==
  IF FIsZero(x) THEN x
  ELSE FSign(DivRound(RoundHalfEven(BigMulSmall(x.m, 100), -x.e), 0, BigFromInt(100), 0),
             x.neg)

(***************************************************************************)
(* Python numbers carry their type: int (m is the value, e = 0) or float.  *)
(***************************************************************************)
PyInt(b) == [ty |-> "int", neg |-> FALSE, m |-> b, e |-> 0]
PyFloat(x) == [ty |-> "float", neg |-> x.neg, m |-> x.m, e |-> x.e]
AsFloat(v) == [neg |-> v.neg, m |-> v.m, e |-> v.e]
\* float(v) of a number v that converts without overflow
ToFloat(v) == IF v.ty = "int" THEN FromBig(v.m) ELSE AsFloat(v)
\* v converts to float without OverflowError
NumFitsFloat(v) == v.ty = "float" \/ BigFitsFloat(v.m)
\* v < n for a number v and an int n >= 0 (Python compares int and float exactly)
NumLtInt(v, n) ==
  IF v.ty = "int" THEN BigLt(v.m, BigFromInt(n)) ELSE FLt(AsFloat(v), FromNat(n))

(***************************************************************************)
(* Python str: a sequence of code points.  bytes: a sequence of 0..255.    *)
(***************************************************************************)
InStr(c, s) == \E j \in DOMAIN s : s[j] = c

ascii_lowercase == [i \in 1..26 |-> 96 + i]
ascii_uppercase == [i \in 1..26 |-> 64 + i]
ascii_letters == ascii_lowercase \o ascii_uppercase
digits == [i \in 1..10 |-> 47 + i]
punctuation ==
  [i \in 1..15 |-> 32 + i] \o [i \in 1..7 |-> 57 + i]
    \o [i \in 1..6 |-> 90 + i] \o [i \in 1..4 |-> 122 + i]
whitespace == <<32, 9, 10, 13, 11, 12>>

\* str.isdigit() of one character, for code points below U+0700
IsDigitChar(c) ==
  \/ c \in 48..57
  \/ c \in {178, 179, 185}
  \/ c \in 1632..1641
  \/ c \in 1776..1785

\* str.encode(): UTF-8, for code points below U+0800
RECURSIVE Encode(_)
Encode(s) ==
  IF s = << >> THEN << >>
  ELSE (IF s[1] < 128 THEN <<s[1]>>
        ELSE <<192 + (s[1] \div 64), 128 + (s[1] % 64)>>) \o Encode(Tail(s))

\* a ^ b on n-bit operands
RECURSIVE XorBits(_, _, _)
XorBits(a, b, n) ==
  IF n = 0 THEN 0
  ELSE (((a % 2) + (b % 2)) % 2) + 2 * XorBits(a \div 2, b \div 2, n - 1)

B64Alphabet == ascii_uppercase \o ascii_lowercase \o digits \o <<43, 47>>

\* base64.b64encode(bs).decode(): 4 characters per 3 bytes, '=' padded
B64Encode(bs) ==
  LET n == Len(bs)
      At(i) == IF i <= n THEN bs[i] ELSE 0
      Ch(i) ==
        LET g == (i - 1) \div 4
            p == (i - 1) % 4
            b0 == At(3 * g + 1)
            b1 == At(3 * g + 2)
            b2 == At(3 * g + 3)
            sextet == CASE p = 0 -> b0 \div 4
                        [] p = 1 -> (b0 % 4) * 16 + (b1 \div 16)
                        [] p = 2 -> (b1 % 16) * 4 + (b2 \div 64)
                        [] p = 3 -> b2 % 64
        IN IF (p = 2 /\ 3 * g + 2 > n) \/ (p = 3 /\ 3 * g + 3 > n)
             THEN 61 ELSE B64Alphabet[sextet + 1]
  IN [i \in 1..(4 * ((n + 2) \div 3)) |-> Ch(i)]

HexDigitChars == digits \o [i \in 1..6 |-> 96 + i]

RECURSIVE HexDigits(_)
HexDigits(n) ==
  IF n < 16 THEN <<HexDigitChars[n + 1]>>
  ELSE HexDigits(n \div 16) \o <<HexDigitChars[(n % 16) + 1]>>

\* hex(n) for an int n >= 0: "0x" and the lower-case digits
Hex(n) == <<48, 120>> \o HexDigits(n)

\* int(s, 2) of a string of '0' and '1'
RECURSIVE ParseBinary(_)
ParseBinary(s) ==
  IF s = << >> THEN 0
  ELSE 2 * ParseBinary(SubSeq(s, 1, Len(s) - 1)) + (s[Len(s)] - 48)

(***************************************************************************)
(* q-passwordv3.py: class QuantumAuthTool                                  *)
(***************************************************************************)
\* __init__
QuantumAuthTool ==
  [GUESSES_PER_SEC |-> BigPow(10, 8), backend |-> "qasm_simulator"]

\* a faulty detect_charsets that takes the digit class from str.isdigit(), as
\* get_improvements does; C1 tells it from detect_charsets
detect_charsets_isdigit(password) ==
  LET sets ==
        [lowercase |-> \E i \in DOMAIN password : InStr(password[i], ascii_lowercase),
         uppercase |-> \E i \in DOMAIN password : InStr(password[i], ascii_uppercase),
         digits |-> \E i \in DOMAIN password : IsDigitChar(password[i]),
         symbols |-> \E i \in DOMAIN password : InStr(password[i], punctuation),
         whitespace |-> \E i \in DOMAIN password : InStr(password[i], whitespace)]
      alphabet_size ==
        (IF sets.lowercase THEN 26 ELSE 0) + (IF sets.uppercase THEN 26 ELSE 0)
          + (IF sets.digits THEN 10 ELSE 0) + (IF sets.symbols THEN 32 ELSE 0)
          + (IF sets.whitespace THEN 1 ELSE 0)
  IN << sets, MaxOf(alphabet_size, 1) >>

\* detect_charsets(password): <<sets, alphabet size>>
detect_charsets(password) ==
  LET sets ==
        [lowercase |-> \E i \in DOMAIN password : InStr(password[i], ascii_lowercase),
         uppercase |-> \E i \in DOMAIN password : InStr(password[i], ascii_uppercase),
         digits |-> \E i \in DOMAIN password : InStr(password[i], digits),
         symbols |-> \E i \in DOMAIN password : InStr(password[i], punctuation),
         whitespace |-> \E i \in DOMAIN password : InStr(password[i], whitespace)]
      alphabet_size ==
        (IF sets.lowercase THEN 26 ELSE 0) + (IF sets.uppercase THEN 26 ELSE 0)
          + (IF sets.digits THEN 10 ELSE 0) + (IF sets.symbols THEN 32 ELSE 0)
          + (IF sets.whitespace THEN 1 ELSE 0)
  IN << sets, MaxOf(alphabet_size, 1) >>

\* a faulty classify_security whose comparisons are <= : a threshold value
\* stays in the lower tier; C8 tells it from classify_security
AtMostInt(v, n) ==
  IF v.ty = "int" THEN BigLe(v.m, BigFromInt(n)) ELSE FLe(AsFloat(v), FromNat(n))
classify_security_inclusive(entropy) ==
  IF AtMostInt(entropy, 40) THEN "Very Weak"
  ELSE IF AtMostInt(entropy, 60) THEN "Weak"
  ELSE IF AtMostInt(entropy, 80) THEN "Moderate"
  ELSE IF AtMostInt(entropy, 128) THEN "Strong"
  ELSE "Very Strong"

\* classify_security(entropy), entropy a number
classify_security(entropy) ==
  IF NumLtInt(entropy, 40) THEN "Very Weak"
  ELSE IF NumLtInt(entropy, 60) THEN "Weak"
  ELSE IF NumLtInt(entropy, 80) THEN "Moderate"
  ELSE IF NumLtInt(entropy, 128) THEN "Strong"
  ELSE "Very Strong"

\* a faulty simulate_quantum_threat whose factor is 1 / sqrt(N); C16 tells it
\* from simulate_quantum_threat
simulate_quantum_threat_reciprocal(self, N) ==
  << PyFloat(FDiv(FSqrt(ToFloat(N)), FromBig(self.GUESSES_PER_SEC))),
     IF N.m # << >> /\ ~N.neg THEN PyFloat(FDiv(FromNat(1), FSqrt(ToFloat(N))))
     ELSE PyInt(BigOne) >>

\* simulate_quantum_threat(N) for a number N >= 0 that math.sqrt accepts:
\* <<q_time, speedup>>
simulate_quantum_threat(self, N) ==
  << PyFloat(FDiv(FSqrt(ToFloat(N)), FromBig(self.GUESSES_PER_SEC))),
     IF N.m # << >> /\ ~N.neg THEN PyFloat(FSqrt(ToFloat(N))) ELSE PyInt(BigOne) >>

\* the strings job.result().get_counts() can hold after one shot of the
\* n-qubit circuit (Hadamard on every qubit, then the CNOT chain): every
\* n-bit outcome has probability 2^-n
MeasureOutcomes(n) == [1..n -> {48, 49}]

\* a faulty mask that keeps seven bits of the key; C7 tells it from XorBytes
XorBytesSevenBits(plain, key_int) ==
  [i \in DOMAIN plain |-> XorBits(plain[i], key_int % 128, 8)]

\* simulate_qkd_and_encrypt(suggestion), key_bits the measured string
\* bytes([b ^ (key_int % 256) for b in plain])
XorBytes(plain, key_int) == [i \in DOMAIN plain |-> XorBits(plain[i], key_int % 256, 8)]
\* the encryption under the key key_int
EncryptWith(suggestion, key_int) ==
  [ciphertext |-> B64Encode(XorBytes(Encode(suggestion), key_int)),
   qkd_key_fingerprint |-> Hex(key_int)]
simulate_qkd_and_encrypt(suggestion, key_bits) ==
  EncryptWith(suggestion, ParseBinary(key_bits))

\* a faulty get_improvements that advises the passphrase below 40 bits only;
\* C18 tells it from get_improvements
get_improvements_forty(password, entropy) ==
  (IF Len(password) < 12
     THEN <<"Increase length to at least 12 characters.">> ELSE << >>)
  \o (IF ~ \E i \in DOMAIN password : IsDigitChar(password[i])
        THEN <<"Include numbers (0-9).">> ELSE << >>)
  \o (IF ~ \E i \in DOMAIN password : InStr(password[i], punctuation)
        THEN <<"Add special symbols (e.g., @, #, $).">> ELSE << >>)
  \o (IF NumLtInt(entropy, 40)
        THEN <<"Current entropy is low; use a passphrase of 4+ random words.">>
        ELSE << >>)

\* get_improvements(password, entropy)
get_improvements(password, entropy) ==
  (IF Len(password) < 12
     THEN <<"Increase length to at least 12 characters.">> ELSE << >>)
  \o (IF ~ \E i \in DOMAIN password : IsDigitChar(password[i])
        THEN <<"Include numbers (0-9).">> ELSE << >>)
  \o (IF ~ \E i \in DOMAIN password : InStr(password[i], punctuation)
        THEN <<"Add special symbols (e.g., @, #, $).">> ELSE << >>)
  \o (IF NumLtInt(entropy, 60)
        THEN <<"Current entropy is low; use a passphrase of 4+ random words.">>
        ELSE << >>)

\* the alphabet generate_random_password draws from
GenAlphabet == ascii_letters \o digits \o punctuation
\* generate_random_password(length): any string of that length over the alphabet
IsGeneratedPassword(s, length) ==
  Len(s) = length /\ \A i \in DOMAIN s : InStr(s[i], GenAlphabet)

NoValue == [none |-> TRUE]
Raised(exc, line, steps) ==
  [status |-> "raised", exc |-> exc, line |-> line, value |-> NoValue, steps |-> steps]
Returned(value, steps) ==
  [status |-> "returned", exc |-> "", line |-> 0, value |-> value, steps |-> steps]

\* analyze, part 1 to part 3 and get_improvements: the locals, c_time being
\* N / GUESSES_PER_SEC
Scoring(self, password, cs, N, entropy, c_time) ==
  IF ~QuotientFits(N, self.GUESSES_PER_SEC, c_time)
    THEN Raised("OverflowError", 108, <<"charsets", "A", "L", "N", "entropy">>)
  ELSE IF ~BigFitsFloat(N)
    THEN Raised("OverflowError", 51, <<"charsets", "A", "L", "N", "entropy", "c_time">>)
  ELSE [status |-> "computed",
        charsets |-> cs[1],
        A |-> cs[2],
        L |-> Len(password),
        N |-> PyInt(N),
        entropy |-> entropy,
        c_time |-> PyFloat(c_time),
        qs |-> simulate_quantum_threat(self, PyInt(N)),
        rating |-> classify_security(entropy),
        recs |-> get_improvements(password, entropy)]

\* analyze, part 1 after N and entropy
Timing(self, password, cs, N, entropy) ==
  Scoring(self, password, cs, N, entropy, IntTrueDiv(N, self.GUESSES_PER_SEC))

\* analyze, part 1 after detect_charsets
Counting(self, password, cs) ==
  Timing(self, password, cs, BigPow(cs[2], Len(password)),
         PyFloat(FMulInt(Len(password), Log2(cs[2]))))

\* analyze(password) up to the suggestions: an exception or the locals
Analysis(self, password) == Counting(self, password, detect_charsets(password))

StepsOfAnalyze ==
  <<"charsets", "A", "L", "N", "entropy", "c_time", "q_time", "speedup", "rating",
    "recs", "new_random", "q_encryption", "report">>

\* analyze(password) from the suggestions on; new_random is the outcome of
\* generate_random_password and q_encryption of simulate_qkd_and_encrypt
BuildReport(an, password, new_random, q_encryption) ==
  IF an.status = "raised" THEN an
  ELSE Returned(
         [input_password |-> password,
          length |-> an.L,
          charsets |-> [lowercase |-> an.charsets.lowercase,
                        uppercase |-> an.charsets.uppercase,
                        digits |-> an.charsets.digits,
                        symbols |-> an.charsets.symbols,
                        whitespace |-> an.charsets.whitespace,
                        alphabet_size |-> an.A],
          classical |-> [combinations |-> an.N,
                         entropy_bits |-> PyFloat(PyRound2(AsFloat(an.entropy))),
                         crack_time_seconds |-> an.c_time],
          quantum |-> [quantum_crack_time_seconds |-> an.qs[1],
                       speedup_factor |-> an.qs[2]],
          security_classification |-> an.rating,
          suggestions |-> an.recs,
          password_suggestions |->
            << [type |-> "passphrase", value |-> "Correct-Horse-Battery-Staple"],
               [type |-> "random", value |-> new_random],
               [type |-> "quantum_encrypted",
                ciphertext |-> q_encryption.ciphertext,
                qkd_key_fingerprint |-> q_encryption.qkd_key_fingerprint] >>],
         StepsOfAnalyze)

(***************************************************************************)
(* Formatting of floats (format specs .2e and .2f), exact on the binary    *)
(* value and rounded half-even as Python does.                             *)
(***************************************************************************)
RECURSIVE DecDigits(_)
DecDigits(n) ==
  IF n < 10 THEN <<48 + n>> ELSE DecDigits(n \div 10) \o <<48 + (n % 10)>>

\* x / 10^j as a quotient of two naturals, x > 0 a float
ScaledNum(x, j) ==
  BigPowFold(IF x.e > 0 THEN BigShl(x.m, x.e) ELSE x.m, 10, IF j < 0 THEN -j ELSE 0)
ScaledDen(x, j) ==
  BigPowFold(IF x.e < 0 THEN BigPow2(-x.e) ELSE BigOne, 10, IF j > 0 THEN j ELSE 0)

\* x >= 10^j
Ge10(x, j) == BigLe(ScaledDen(x, j), ScaledNum(x, j))

\* floor(log10(x)) for a float x > 0
Floor10(x) ==
  LET d0 == ((x.e + MantBits - 1) * 30103) \div 100000
  IN IF Ge10(x, d0 + 1) THEN d0 + 1 ELSE IF Ge10(x, d0) THEN d0 ELSE d0 - 1

\* x / 10^j rounded half-even to an integer (a machine-size result)
\* q, or q + 1 when the remainder is above half (c > 0) or a tie on odd q
RoundQuotient(q, c) == IF c > 0 \/ (c = 0 /\ q % 2 = 1) THEN q + 1 ELSE q
RoundRemainder(qr, den) ==
  RoundQuotient(BigToInt(qr[1]), BigCmp(BigMulSmall(qr[2], 2), den))
RoundScaled(x, j) ==
  RoundRemainder(BigDivMod(ScaledNum(x, j), ScaledDen(x, j)), ScaledDen(x, j))

\* the text of r / 100 times 10^d with 100 <= r < 1000: "r.rre+dd"
Fmt2eDigits(r, d) ==
  <<48 + r \div 100, 46, 48 + ((r \div 10) % 10), 48 + (r % 10), 101,
    IF d < 0 THEN 45 ELSE 43>>
  \o (IF d > -10 /\ d < 10 THEN <<48>> ELSE << >>) \o DecDigits(IF d < 0 THEN -d ELSE d)
\* a mantissa that rounds up to 10.00 moves to the next decade
Fmt2eRound(r0, d0) ==
  Fmt2eDigits(IF r0 = 1000 THEN 100 ELSE r0, IF r0 = 1000 THEN d0 + 1 ELSE d0)
Fmt2eDecade(x, d0) == Fmt2eRound(RoundScaled(x, d0 - 2), d0)

\* f"{x:.2e}" for a float x >= 0
Fmt2e(x) ==
  IF FIsZero(x) THEN <<48, 46, 48, 48, 101, 43, 48, 48>> ELSE Fmt2eDecade(x, Floor10(x))

\* the text of h / 100 with two decimals
Fmt2fDigits(h) ==
  DecDigits(h \div 100) \o <<46, 48 + ((h \div 10) % 10), 48 + (h % 10)>>
\* f"{x:.2f}" for a float x >= 0 whose hundredths fit a machine integer
Fmt2f(x) == Fmt2fDigits(IF FIsZero(x) THEN 0 ELSE RoundScaled(x, -2))

\* needle in hay, for strings
Contains(hay, needle) ==
  \E i \in 1..(Len(hay) - Len(needle) + 1) :
    SubSeq(hay, i, i + Len(needle) - 1) = needle

(***************************************************************************)
(* q-password.py: class QuantumPasswordAnalyzer                            *)
(***************************************************************************)
\* a faulty __init__ with a quantum speed of 10^9; C5 tells it from __init__
QuantumPasswordAnalyzerGiga ==
  [char_sets |-> [lowercase |-> 26, uppercase |-> 26, digits |-> 10, symbols |-> 8],
   classical_speed |-> BigPow(10, 8),
   quantum_speed |-> BigPow(10, 9),
   quantum_backend |-> "qasm_simulator"]

\* __init__
QuantumPasswordAnalyzer ==
  [char_sets |-> [lowercase |-> 26, uppercase |-> 26, digits |-> 10, symbols |-> 8],
   classical_speed |-> BigPow(10, 8),
   quantum_speed |-> BigPow(10, 12),
   quantum_backend |-> "qasm_simulator"]

\* calculate_charset_size(...): k (the details list is only printed)
calculate_charset_size(self, use_lowercase, use_uppercase, use_digits, use_symbols) ==
  (IF use_lowercase THEN self.char_sets.lowercase ELSE 0)
    + (IF use_uppercase THEN self.char_sets.uppercase ELSE 0)
    + (IF use_digits THEN self.char_sets.digits ELSE 0)
    + (IF use_symbols THEN self.char_sets.symbols ELSE 0)

\* k ** n raises ZeroDivisionError
PowRaises(k, n) == k = 0 /\ n < 0

\* a faulty calculate_classical_combinations that computes math.pow(k, n), a
\* rounded float; C3 tells it from calculate_classical_combinations
calculate_classical_combinations_float(k, n) ==
  IF n >= 0 THEN PyFloat(FromBig(BigPow(k, n)))
  ELSE PyFloat(DivRound(BigOne, 0, BigPow(k, -n), 0))

\* a faulty calculate_classical_combinations in 32-bit unsigned arithmetic,
\* where k ** n wraps around; C13 tells it from calculate_classical_combinations
calculate_classical_combinations_wrapped(k, n) ==
  IF n >= 0 THEN PyInt(BigDivMod(BigPow(k, n), BigPow2(32))[2])
  ELSE PyFloat(DivRound(BigOne, 0, BigPow(k, -n), 0))

\* calculate_classical_combinations(k, n): k ** n, an int for n >= 0 and the
\* float 1 / k^-n for n < 0
calculate_classical_combinations(k, n) ==
  IF n >= 0 THEN PyInt(BigPow(k, n))
  ELSE PyFloat(DivRound(BigOne, 0, BigPow(k, -n), 0))

\* calculate_entropy(k, n)
calculate_entropy(k, n) ==
  IF k <= 0 THEN PyInt(<< >>) ELSE PyFloat(FMulInt(n, Log2(k)))

\* number / int for an int divisor > 0 (the dividend converts to float)
NumDivInt(v, d) ==
  IF v.ty = "int" THEN IntTrueDiv(v.m, d) ELSE FDiv(AsFloat(v), FromBig(d))

\* format_time(seconds), seconds a float >= 0
format_time(seconds) ==
  IF FLt(seconds, FromNat(60)) THEN Fmt2e(seconds) \o <<32, 115, 101, 99, 111, 110, 100, 115>>
  ELSE IF FLt(seconds, FromNat(3600))
    THEN Fmt2f(FDiv(seconds, FromNat(60))) \o <<32, 109, 105, 110, 117, 116, 101, 115>>
  ELSE IF FLt(seconds, FromNat(86400))
    THEN Fmt2f(FDiv(seconds, FromNat(3600))) \o <<32, 104, 111, 117, 114, 115>>
  ELSE IF FLt(seconds, FromNat(31536000))
    THEN Fmt2f(FDiv(seconds, FromNat(86400))) \o <<32, 100, 97, 121, 115>>
  ELSE Fmt2e(FDiv(seconds, FromNat(31536000))) \o <<32, 121, 101, 97, 114, 115>>

\* calculate_classical_crack_time(combinations)
calculate_classical_crack_time(self, combinations) ==
  format_time(NumDivInt(combinations, self.classical_speed))

\* classify_strength(entropy): <<label, emoji>>
classify_strength(entropy) ==
  IF NumLtInt(entropy, 40) THEN <<"WEAK", "red">>
  ELSE IF NumLtInt(entropy, 60) THEN <<"MEDIUM", "yellow">>
  ELSE IF NumLtInt(entropy, 80) THEN <<"STRONG", "green">>
  ELSE <<"VERY STRONG", "green green">>

\* a faulty apply_grovers_speedup that divides the wrong way round; C6 tells
\* it from apply_grovers_speedup
apply_grovers_speedup_inverted(combinations) ==
  << PyFloat(FSqrt(ToFloat(combinations))),
     IF ~FIsZero(FSqrt(ToFloat(combinations)))
       THEN PyFloat(FDiv(FSqrt(ToFloat(combinations)), ToFloat(combinations)))
       ELSE PyInt(BigOne) >>

\* apply_grovers_speedup(combinations) for a number >= 0 that math.sqrt
\* accepts: <<quantum_attempts, speedup_factor>>
GroverPair(combinations, quantum_attempts) ==
  << PyFloat(quantum_attempts),
     IF ~FIsZero(quantum_attempts)
       THEN PyFloat(FDiv(ToFloat(combinations), quantum_attempts))
       ELSE PyInt(BigOne) >>
apply_grovers_speedup(combinations) ==
  GroverPair(combinations, FSqrt(ToFloat(combinations)))

\* calculate_quantum_crack_time(quantum_attempts)
calculate_quantum_crack_time(self, quantum_attempts) ==
  format_time(NumDivInt(quantum_attempts, self.quantum_speed))

\* a faulty assess_quantum_vulnerability that reads the classical time; C17
\* tells it from assess_quantum_vulnerability
assess_quantum_vulnerability_classical(classical_time_str, quantum_time_str) ==
  IF Contains(classical_time_str, <<115, 101, 99, 111, 110, 100>>)
       \/ Contains(classical_time_str, <<109, 105, 110, 117, 116, 101>>)
    THEN "CRITICAL"
  ELSE IF Contains(classical_time_str, <<104, 111, 117, 114>>)
            \/ Contains(classical_time_str, <<100, 97, 121>>)
    THEN "HIGH"
  ELSE IF Contains(classical_time_str, <<121, 101, 97, 114>>) THEN "MODERATE"
  ELSE "LOW"

\* assess_quantum_vulnerability(classical_time_str, quantum_time_str)
assess_quantum_vulnerability(classical_time_str, quantum_time_str) ==
  IF Contains(quantum_time_str, <<115, 101, 99, 111, 110, 100>>)
       \/ Contains(quantum_time_str, <<109, 105, 110, 117, 116, 101>>)
    THEN "CRITICAL"
  ELSE IF Contains(quantum_time_str, <<104, 111, 117, 114>>)
            \/ Contains(quantum_time_str, <<100, 97, 121>>)
    THEN "HIGH"
  ELSE IF Contains(quantum_time_str, <<121, 101, 97, 114>>) THEN "MODERATE"
  ELSE "LOW"

\* the register size with the cap at 4 in place of 8
NumQubitsNibble(length) == IF length < 4 THEN length ELSE 4

\* create_quantum_key(length): the register size
NumQubits(length) == IF length < 8 THEN length ELSE 8

\* quantum_encrypt_password(password_length): <<quantum_hash, quantum_key>>;
\* the four digits of the hash are hash(quantum_key) % 10000, a value fixed by
\* the interpreter's string hashing and left uninterpreted
quantum_encrypt_password(quantum_key) ==
  << [prefix |-> "QKD-", key |-> quantum_key, digits |-> "hash(quantum_key) % 10000"],
     quantum_key >>

\* analyze_password, MODULE 2 after the quantum crack time: the locals
ThreatLocals(k, combinations, entropy, classical_time, gs, quantum_time) ==
  [status |-> "computed",
   k |-> k,
   combinations |-> combinations,
   entropy |-> entropy,
   classical_time |-> classical_time,
   strength |-> classify_strength(entropy)[1],
   quantum_attempts |-> gs[1],
   speedup |-> gs[2],
   quantum_time |-> quantum_time,
   vulnerability |-> assess_quantum_vulnerability(classical_time, quantum_time)]

\* analyze_password, MODULE 2 after apply_grovers_speedup
QuantumThreat(self, k, combinations, entropy, classical_time, gs) ==
  ThreatLocals(k, combinations, entropy, classical_time, gs,
               calculate_quantum_crack_time(self, gs[1]))

\* analyze_password, MODULE 1 after Step 2: the two prints that can fail
\* (combinations as .2e, math.log2(k)), then Steps 3 to 5 and MODULE 2
ClassicalAnalysis(self, length, k, combinations) ==
  IF ~NumFitsFloat(combinations)
    THEN Raised("OverflowError", 364, <<"k", "combinations">>)
  ELSE IF k = 0
    THEN Raised("ValueError", 370, <<"k", "combinations", "entropy">>)
  ELSE QuantumThreat(self, k, combinations, calculate_entropy(k, length),
                     calculate_classical_crack_time(self, combinations),
                     apply_grovers_speedup(combinations))

\* analyze_password, MODULE 1 after Step 1
Combinations(self, length, k) ==
  IF PowRaises(k, length) THEN Raised("ZeroDivisionError", 118, <<"k">>)
  ELSE ClassicalAnalysis(self, length, k, calculate_classical_combinations(k, length))

\* analyze_password(...), MODULE 1 and MODULE 2: an exception or the locals
ThreatAnalysis(self, length, use_lowercase, use_uppercase, use_digits, use_symbols) ==
  Combinations(self, length,
               calculate_charset_size(self, use_lowercase, use_uppercase,
                                      use_digits, use_symbols))

StepsOfThreatAnalysis ==
  <<"k", "combinations", "entropy", "classical_time", "strength", "quantum_attempts",
    "speedup", "quantum_time", "vulnerability">>

\* analyze_password(...), MODULE 3 and the return; quantum_key is the measured
\* string.  The library refuses a register of negative size (CircuitError);
\* what it does with an empty register is not fixed by this code: empty_ok
\* chooses between an empty key and an error raised inside create_quantum_key.
QuantumEncryption(an, length, quantum_key, empty_ok) ==
  IF an.status = "raised" THEN an
  ELSE IF NumQubits(length) < 0 THEN Raised("CircuitError", 257, StepsOfThreatAnalysis)
  ELSE IF NumQubits(length) = 0 /\ ~empty_ok
    THEN Raised("QiskitError", 281, StepsOfThreatAnalysis)
  ELSE Returned(
         [length |-> length,
          charset_size |-> an.k,
          classical_combinations |-> an.combinations,
          entropy |-> an.entropy,
          classical_time |-> an.classical_time,
          quantum_attempts |-> an.quantum_attempts,
          quantum_time |-> an.quantum_time,
          classical_strength |-> an.strength,
          quantum_vulnerability |-> an.vulnerability,
          quantum_hash |-> quantum_encrypt_password(quantum_key)[1],
          quantum_key |-> quantum_encrypt_password(quantum_key)[2]],
         StepsOfThreatAnalysis \o <<"quantum_hash", "quantum_key", "report">>)

(***************************************************************************)
(* Bounds of the model and the inputs drawn within them.                   *)
(***************************************************************************)
\* analyze_password: lengths -MaxNegLen..MaxLen and HugeLenA
MaxNegLen == 2
MaxLen == 14
HugeLenA == 168
\* analyze: passwords of one repeated pattern of length 0..MaxPwLen, and of
\* length HugeLenB - 4 and HugeLenB
MaxPwLen == 13
HugeLenB == 160
\* the measured keys and generated passwords drawn in a whole analysis
MaxKeySamples == 1
MaxGenSamples == 1
\* generate_random_password(length=16)
GenLength == 16
\* direct calls: entropies within MaxOffset of a threshold, combinations k^n
\* for n up to MaxPairLen
MaxOffset == 1
MaxPairLen == 2

\* a, Z, 5, @, space, and Arabic-Indic three (in no class; isdigit() holds)
SampleChars == <<97, 90, 53, 64, 32, 1635>>

\* the subsequence of SampleChars picked by the index set S
RECURSIVE Pick(_, _)
Pick(S, i) ==
  IF i > Len(SampleChars) THEN << >>
  ELSE (IF i \in S THEN <<SampleChars[i]>> ELSE << >>) \o Pick(S, i + 1)

\* the characters cs repeated cyclically to length n
Fill(cs, n) == [i \in 1..n |-> cs[((i - 1) % Len(cs)) + 1]]

\* every combination of the sample characters, the empty password included
ClassPasswords == { Pick(S, 1) : S \in SUBSET (1..Len(SampleChars)) }
\* one class and all five classes, at every length
PwLens == (0..MaxPwLen) \cup {HugeLenB - 4, HugeLenB}
LengthPasswords == { Fill(b, n) : b \in {<<97>>, <<97, 90, 53, 64, 32>>}, n \in PwLens }
\* "abcdef"
ExamplePasswords == { <<97, 98, 99, 100, 101, 102>> }
Passwords == ClassPasswords \cup LengthPasswords \cup ExamplePasswords

Lengths == ((-MaxNegLen)..MaxLen) \cup {HugeLenA}

\* the n-bit string of v
KeyString(v, n) == [i \in 1..n |-> 48 + ((v \div Pow2(n - i)) % 2)]
\* a spread of the 2^n equally likely outcomes
SampledOutcomes(n) ==
  { KeyString(((i * 165) % 256) % Pow2(n), n) : i \in 0..MaxKeySamples }

\* a spread of the strings generate_random_password can return
GeneratedSample(i) ==
  [j \in 1..GenLength |-> GenAlphabet[((i * 29 + j * (2 * i + 7)) % Len(GenAlphabet)) + 1]]
GeneratedSamples == { GeneratedSample(i) : i \in 0..MaxGenSamples }

\* the outcomes the library leaves open for an empty register
EmptyRegisterChoices(length) == IF NumQubits(length) = 0 THEN BOOLEAN ELSE {TRUE}

\* analyze_password(...): the outcomes the measurement and the library allow
EncryptionOutcomes(an, length) ==
  { QuantumEncryption(an, length, quantum_key, empty_ok) :
      quantum_key \in SampledOutcomes(MaxOf(NumQubits(length), 0)),
      empty_ok \in EmptyRegisterChoices(length) }
analyze_password(self, length, use_lowercase, use_uppercase, use_digits, use_symbols) ==
  EncryptionOutcomes(ThreatAnalysis(self, length, use_lowercase, use_uppercase,
                                    use_digits, use_symbols), length)

\* the outcomes were the input password itself offered again and encrypted
ReportOutcomesFromInput(an, password) ==
  { BuildReport(an, password, password, simulate_qkd_and_encrypt(password, key_bits)) :
      key_bits \in SampledOutcomes(8) }

\* analyze(password): the outcomes the random password and the measurement allow
ReportOutcomes(an, password) ==
  { BuildReport(an, password, new_random, simulate_qkd_and_encrypt(new_random, key_bits)) :
      new_random \in { g \in GeneratedSamples : IsGeneratedPassword(g, GenLength) },
      key_bits \in SampledOutcomes(8) }
analyze(self, password) == ReportOutcomes(Analysis(self, password), password)

\* the float just below x > 0
FPred(x) ==
  IF x.m = BigPow2(MantBits - 1)
    THEN [neg |-> FALSE, m |-> BigSub(BigPow2(MantBits), BigOne), e |-> x.e - 1]
    ELSE [neg |-> FALSE, m |-> BigSub(x.m, BigOne), e |-> x.e]

\* entropies around the thresholds of the two classifiers: the ints and floats
\* within MaxOffset, the float just below each threshold, and a negative one
Thresholds == {40, 60, 80, 128}
EntropySamples ==
  { PyInt(BigFromInt(t + d)) : t \in Thresholds, d \in 0..MaxOffset }
    \cup { PyFloat(FromInt(t + d)) : t \in Thresholds, d \in (-MaxOffset)..MaxOffset }
    \cup { PyFloat(FPred(FromNat(t))) : t \in Thresholds }
    \cup { PyInt(<< >>), PyFloat(FromInt(-MaxOffset)) }

\* combinations both analysers can meet: 0 and k^n for the alphabet sizes they share
SharedSizes == {10, 26, 36, 52, 62}
CombinationSamples ==
  { PyInt(<< >>) } \cup { PyInt(BigPow(k, n)) : k \in SharedSizes, n \in 0..MaxPairLen }

(***************************************************************************)
(* State: the two objects' fields, the call in progress and its outcome,   *)
(* and the call completed before it.                                       *)
(***************************************************************************)
VARIABLES analyzer, tool, pc, call, ret, prev

vars == << analyzer, tool, pc, call, ret, prev >>

NoCall == [fn |-> "", args |-> << >>]
NoRet == [status |-> "none", exc |-> "", line |-> 0, value |-> NoValue, steps |-> << >>]

Init ==
  /\ analyzer = QuantumPasswordAnalyzer
  /\ tool = QuantumAuthTool
  /\ pc = "idle"
  /\ call = NoCall
  /\ ret = NoRet
  /\ prev = [call |-> NoCall, ret |-> NoRet]

\* analyzer.analyze_password(length, use_lowercase, use_uppercase, use_digits,
\* use_symbols)
AnalyzePassword ==
  /\ pc = "idle"
  /\ \E length \in Lengths, lo \in BOOLEAN, up \in BOOLEAN, di \in BOOLEAN,
        sy \in BOOLEAN :
       \E outcome \in analyze_password(analyzer, length, lo, up, di, sy) :
         /\ call' = [fn |-> "analyze_password", args |-> <<length, lo, up, di, sy>>]
         /\ ret' = outcome
  /\ pc' = "done"
  /\ UNCHANGED << analyzer, tool, prev >>

\* tool.analyze(password)
Analyze ==
  /\ pc = "idle"
  /\ \E password \in Passwords :
       \E outcome \in analyze(tool, password) :
         /\ call' = [fn |-> "analyze", args |-> <<password>>]
         /\ ret' = outcome
  /\ pc' = "done"
  /\ UNCHANGED << analyzer, tool, prev >>

\* the caller takes the report or the exception; the object is ready again
Consume ==
  /\ pc = "done"
  /\ pc' = "idle"
  /\ call' = NoCall
  /\ ret' = NoRet
  /\ UNCHANGED << analyzer, tool, prev >>

Next == AnalyzePassword \/ Analyze \/ Consume

Spec == Init /\ [][Next]_vars

(***************************************************************************)
(* The key exchange called on its own, with every outcome of the           *)
(* measurement.                                                            *)
(***************************************************************************)
\* tool.simulate_qkd_and_encrypt(suggestion)
SimulateQkdAndEncrypt ==
  /\ pc = "idle"
  /\ \E suggestion \in GeneratedSamples, key_bits \in MeasureOutcomes(8) :
       /\ call' = [fn |-> "simulate_qkd_and_encrypt", args |-> <<suggestion>>]
       /\ ret' = Returned(simulate_qkd_and_encrypt(suggestion, key_bits), <<"result">>)
  /\ pc' = "done"
  /\ UNCHANGED << analyzer, tool, prev >>

NextKey == SimulateQkdAndEncrypt \/ Consume

SpecKey == Init /\ [][NextKey]_vars

(***************************************************************************)
(* The classifiers and the speedup computations called on their own; the   *)
(* caller keeps the call before the current one.                           *)
(***************************************************************************)
\* analyzer.classify_strength(entropy)
ClassifyStrength ==
  /\ pc = "idle"
  /\ \E entropy \in EntropySamples :
       /\ call' = [fn |-> "classify_strength", args |-> <<entropy>>]
       /\ ret' = Returned(classify_strength(entropy), <<"result">>)
  /\ pc' = "done"
  /\ UNCHANGED << analyzer, tool, prev >>

\* tool.classify_security(entropy)
ClassifySecurity ==
  /\ pc = "idle"
  /\ \E entropy \in EntropySamples :
       /\ call' = [fn |-> "classify_security", args |-> <<entropy>>]
       /\ ret' = Returned(classify_security(entropy), <<"result">>)
  /\ pc' = "done"
  /\ UNCHANGED << analyzer, tool, prev >>

\* analyzer.apply_grovers_speedup(combinations)
ApplyGroversSpeedup ==
  /\ pc = "idle"
  /\ \E combinations \in CombinationSamples :
       /\ call' = [fn |-> "apply_grovers_speedup", args |-> <<combinations>>]
       /\ ret' = Returned(apply_grovers_speedup(combinations), <<"result">>)
  /\ pc' = "done"
  /\ UNCHANGED << analyzer, tool, prev >>

\* tool.simulate_quantum_threat(N)
SimulateQuantumThreat ==
  /\ pc = "idle"
  /\ \E N \in CombinationSamples :
       /\ call' = [fn |-> "simulate_quantum_threat", args |-> <<N>>]
       /\ ret' = Returned(simulate_quantum_threat(tool, N), <<"result">>)
  /\ pc' = "done"
  /\ UNCHANGED << analyzer, tool, prev >>

\* the caller keeps the outcome and calls again
Remember ==
  /\ pc = "done"
  /\ pc' = "idle"
  /\ prev' = [call |-> call, ret |-> ret]
  /\ call' = NoCall
  /\ ret' = NoRet
  /\ UNCHANGED << analyzer, tool >>

NextCalls ==
  ClassifyStrength \/ ClassifySecurity \/ ApplyGroversSpeedup \/ SimulateQuantumThreat
    \/ Remember

SpecCalls == Init /\ [][NextCalls]_vars

(***************************************************************************)
(* The two key generators called on their own, with every outcome of the   *)
(* measurement.                                                            *)
(***************************************************************************)
\* create_quantum_key(length): quantum_key is the measured string; the circuit
\* is only drawn.  The library refuses a register of negative size; empty_ok
\* chooses what it does with an empty one, as in analyze_password.
create_quantum_key(length, quantum_key, empty_ok) ==
  IF NumQubits(length) < 0 THEN Raised("CircuitError", 257, <<"num_qubits">>)
  ELSE IF NumQubits(length) = 0 /\ ~empty_ok
    THEN Raised("QiskitError", 281, <<"num_qubits", "qr", "cr", "qc">>)
  ELSE Returned(quantum_key,
                <<"num_qubits", "qr", "cr", "qc", "job", "result", "counts", "quantum_key">>)

\* analyzer.create_quantum_key(length)
CreateQuantumKey ==
  /\ pc = "idle"
  /\ \E length \in Lengths :
       \E quantum_key \in MeasureOutcomes(MaxOf(NumQubits(length), 0)),
          empty_ok \in EmptyRegisterChoices(length) :
         /\ call' = [fn |-> "create_quantum_key", args |-> <<length>>]
         /\ ret' = create_quantum_key(length, quantum_key, empty_ok)
  /\ pc' = "done"
  /\ UNCHANGED << analyzer, tool, prev >>

\* the outcome r together with the locals of the call that produced it
WithLocals(r, locals) ==
  [status |-> r.status, exc |-> r.exc, line |-> r.line, value |-> r.value,
   steps |-> r.steps, locals |-> locals]

\* tool.simulate_qkd_and_encrypt(suggestion), its locals key_bits and key_int
\* kept beside the result
SimulateQkdAndEncryptLocals ==
  /\ pc = "idle"
  /\ \E suggestion \in GeneratedSamples, key_bits \in MeasureOutcomes(8) :
       /\ call' = [fn |-> "simulate_qkd_and_encrypt", args |-> <<suggestion>>]
       /\ ret' = WithLocals(Returned(simulate_qkd_and_encrypt(suggestion, key_bits),
                                     <<"qc", "job", "key_bits", "key_int",
                                       "encrypted_bytes", "result">>),
                            [key_bits |-> key_bits, key_int |-> ParseBinary(key_bits)])
  /\ pc' = "done"
  /\ UNCHANGED << analyzer, tool, prev >>

NextKeyGen == CreateQuantumKey \/ SimulateQkdAndEncryptLocals \/ Consume

SpecKeyGen == Init /\ [][NextKeyGen]_vars

(***************************************************************************)
(* Several analyses on one object, as run_demo_examples makes them; prev    *)
(* holds the call before.                                                  *)
(***************************************************************************)
\* run_demo_examples: the arguments of its three calls of analyze_password
DemoCalls ==
  { <<6, TRUE, FALSE, FALSE, FALSE>>, <<8, TRUE, TRUE, TRUE, FALSE>>,
    <<12, TRUE, TRUE, TRUE, TRUE>> }
\* passwords given to one tool: none, "abcdef" and one of all five classes
SessionPasswords ==
  ExamplePasswords \cup { << >>, Fill(<<97, 90, 53, 64, 32>>, MaxPwLen - 1) }

\* a faulty analyze_password that leaves a tenfold classical_speed behind on
\* the object; C15 tells it from DemoAnalyzePassword
DemoAnalyzePasswordRetuning ==
  /\ pc = "idle"
  /\ \E args \in DemoCalls :
       \E outcome \in analyze_password(analyzer, args[1], args[2], args[3], args[4], args[5]) :
         /\ call' = [fn |-> "analyze_password", args |-> args]
         /\ ret' = outcome
  /\ pc' = "done"
  /\ analyzer' = [analyzer EXCEPT !.classical_speed = BigMulSmall(@, 10)]
  /\ UNCHANGED << tool, prev >>

\* analyzer.analyze_password(...), one of the calls of run_demo_examples; no
\* statement of analyze_password or of the methods it calls assigns to self
DemoAnalyzePassword ==
  /\ pc = "idle"
  /\ \E args \in DemoCalls :
       \E outcome \in analyze_password(analyzer, args[1], args[2], args[3], args[4], args[5]) :
         /\ call' = [fn |-> "analyze_password", args |-> args]
         /\ ret' = outcome
  /\ pc' = "done"
  /\ UNCHANGED << analyzer, tool, prev >>

\* tool.analyze(password) on a tool that may have analysed before
SessionAnalyze ==
  /\ pc = "idle"
  /\ \E password \in SessionPasswords :
       \E outcome \in analyze(tool, password) :
         /\ call' = [fn |-> "analyze", args |-> <<password>>]
         /\ ret' = outcome
  /\ pc' = "done"
  /\ UNCHANGED << analyzer, tool, prev >>

NextDemo == DemoAnalyzePassword \/ SessionAnalyze \/ Remember

SpecDemo == Init /\ [][NextDemo]_vars

(***************************************************************************)
(* The duration formatter and the vulnerability assessment called on their *)
(* own, on crack times around the unit boundaries of format_time.          *)
(***************************************************************************)
\* seconds: 0, the boundaries of format_time and the values within MaxOffset
\* of them, the float just below each boundary, and 10^30
TimeThresholds == {60, 3600, 86400, 31536000}
SecondsSamples ==
  { FromInt(t + d) : t \in TimeThresholds, d \in (-MaxOffset)..MaxOffset }
    \cup { FPred(FromNat(t)) : t \in TimeThresholds }
    \cup { FloatZero, FromBig(BigPow(10, 30)) }
\* classical crack times as analyze_password passes them on: formatted
ClassicalTimeSamples ==
  { format_time(FromNat(3)), format_time(FromNat(100000)), format_time(FromBig(BigPow(10, 12))) }

\* analyzer.format_time(seconds)
FormatTime ==
  /\ pc = "idle"
  /\ \E seconds \in SecondsSamples :
       /\ call' = [fn |-> "format_time", args |-> <<seconds>>]
       /\ ret' = Returned(format_time(seconds), <<"result">>)
  /\ pc' = "done"
  /\ UNCHANGED << analyzer, tool, prev >>

\* analyzer.assess_quantum_vulnerability(classical_time, quantum_time), the
\* quantum time being the string format_time returned in the call before, as
\* in analyze_password
AssessQuantumVulnerability ==
  /\ pc = "idle"
  /\ prev.call.fn = "format_time"
  /\ \E classical_time \in ClassicalTimeSamples :
       /\ call' = [fn |-> "assess_quantum_vulnerability",
                   args |-> <<classical_time, prev.ret.value>>]
       /\ ret' = Returned(assess_quantum_vulnerability(classical_time, prev.ret.value),
                          <<"result">>)
  /\ pc' = "done"
  /\ UNCHANGED << analyzer, tool, prev >>

\* the caller keeps the string or the level and goes on
KeepResult ==
  /\ pc = "done"
  /\ pc' = "idle"
  /\ prev' = IF call.fn = "format_time" THEN [call |-> call, ret |-> ret] ELSE prev
  /\ call' = NoCall
  /\ ret' = NoRet
  /\ UNCHANGED << analyzer, tool >>

NextTimes == FormatTime \/ AssessQuantumVulnerability \/ KeepResult

SpecTimes == Init /\ [][NextTimes]_vars

(***************************************************************************)
(* Properties.  A call has acted when pc = "done": call holds the method    *)
(* and its arguments, ret its report or its exception.                     *)
(***************************************************************************)
ReturnedFrom(fn) == pc = "done" /\ call.fn = fn /\ ret.status = "returned"
CalledWith(fn) == pc = "done" /\ call.fn = fn
IsZeroNum(v) == v.m = << >>

\* the natural number written with the decimal digits ds, most significant first
RECURSIVE BigFromDigits(_)
BigFromDigits(ds) ==
  IF ds = << >> THEN << >>
  ELSE BigAdd(BigMulSmall(BigFromDigits(SubSeq(ds, 1, Len(ds) - 1)), 10),
              BigFromInt(ds[Len(ds)]))

\* the classes' defining sets as sets of code points
LowerSet == 97..122
UpperSet == 65..90
DigitSet == 48..57
SymbolSet == (33..47) \cup (58..64) \cup (91..96) \cup (123..126)
SpaceSet == {9, 10, 11, 12, 13, 32}
HasCharIn(password, S) == \E i \in DOMAIN password : password[i] \in S
ClassSum(cs) ==
  (IF cs.lowercase THEN 26 ELSE 0) + (IF cs.uppercase THEN 26 ELSE 0)
    + (IF cs.digits THEN 10 ELSE 0) + (IF cs.symbols THEN 32 ELSE 0)
    + (IF cs.whitespace THEN 1 ELSE 0)

\* C1: in every report of analyze, each class of the charset profile is marked
\* present exactly when some character of the password lies in the class's
\* defining set, and the alphabet size is 26, 26, 10, 32 and 1 summed over the
\* present classes, or 1 when no class is present.
C1_DetectCharsets ==
  ReturnedFrom("analyze") =>
    /\ ret.value.charsets.lowercase <=> HasCharIn(call.args[1], LowerSet)
    /\ ret.value.charsets.uppercase <=> HasCharIn(call.args[1], UpperSet)
    /\ ret.value.charsets.digits <=> HasCharIn(call.args[1], DigitSet)
    /\ ret.value.charsets.symbols <=> HasCharIn(call.args[1], SymbolSet)
    /\ ret.value.charsets.whitespace <=> HasCharIn(call.args[1], SpaceSet)
    /\ ret.value.charsets.alphabet_size =
         (IF ClassSum(ret.value.charsets) = 0 THEN 1 ELSE ClassSum(ret.value.charsets))

\* C1 at work: a password with a character outside every class (so that the
\* digit class is absent although isdigit() holds of it) and with lowercase,
\* symbol and whitespace characters: alphabet size 26 + 32 + 1
C1_Witness ==
  /\ ReturnedFrom("analyze")
  /\ HasCharIn(call.args[1], {1635})
  /\ ret.value.charsets.lowercase /\ ret.value.charsets.symbols
  /\ ret.value.charsets.whitespace
  /\ ~ret.value.charsets.uppercase /\ ~ret.value.charsets.digits
  /\ ret.value.charsets.alphabet_size = 59

\* C1 at the floor: the empty password has no class and alphabet size 1
C1_FloorReached ==
  /\ ReturnedFrom("analyze")
  /\ call.args[1] = << >>
  /\ ret.value.charsets.alphabet_size = 1

NoFlags(args) == ~args[2] /\ ~args[3] /\ ~args[4] /\ ~args[5]

\* C2: the degenerate input does not fail - the empty password given to
\* analyze, and analyze_password with the four class flags false and a length
\* >= 0, each return a report with alphabet size 1, combinations 1, entropy 0
\* and the lowest tier.
C2_DegenerateInput ==
  /\ (CalledWith("analyze") /\ call.args[1] = << >>) =>
       /\ ret.status = "returned"
       /\ ret.value.charsets.alphabet_size = 1
       /\ ret.value.classical.combinations = PyInt(BigOne)
       /\ IsZeroNum(ret.value.classical.entropy_bits)
       /\ ret.value.security_classification = "Very Weak"
  /\ (CalledWith("analyze_password") /\ call.args[1] >= 0 /\ NoFlags(call.args)) =>
       /\ ret.status = "returned"
       /\ ret.value.charset_size = 1
       /\ ret.value.classical_combinations = PyInt(BigOne)
       /\ IsZeroNum(ret.value.entropy)
       /\ ret.value.classical_strength = "WEAK"

\* what the code does with the degenerate input: analyze returns the report
\* C2 describes; analyze_password raises ValueError at the print of
\* math.log2(k), with k = 0, whatever the length
C2_Observed ==
  /\ (CalledWith("analyze") /\ call.args[1] = << >>) =>
       /\ ret.status = "returned"
       /\ ret.value.charsets.alphabet_size = 1
       /\ ret.value.classical.combinations = PyInt(BigOne)
       /\ IsZeroNum(ret.value.classical.entropy_bits)
       /\ ret.value.security_classification = "Very Weak"
  /\ (CalledWith("analyze_password") /\ call.args[1] >= 0 /\ NoFlags(call.args)) =>
       /\ ret.status = "raised"
       /\ ret.exc = "ValueError"
       /\ ret.line = 370

\* v divided n times by k, each division exact: the last quotient, or zero
\* when some division leaves a remainder
RECURSIVE DivideOut(_, _, _)
DivideOut(v, k, n) ==
  IF n = 0 THEN v
  ELSE IF n = 1
    THEN LET qr == BigDivSmall(v, k)
         IN IF qr[2] = 0 THEN qr[1] ELSE << >>
  ELSE LET h == DivideOut(v, k, n \div 2)
       IN IF h = << >> THEN << >> ELSE DivideOut(h, k, n - n \div 2)
\* the number v is the int k^n, k >= 1: n exact divisions by k leave 1
IsPower(v, k, n) == v.ty = "int" /\ ~v.neg /\ DivideOut(v.m, k, n) = BigOne

\* 26^6 = 308,915,776 and 62^8 = 218,340,105,584,896
Pow26_6 == BigFromDigits(<<3, 0, 8, 9, 1, 5, 7, 7, 6>>)
Pow62_8 == BigFromDigits(<<2, 1, 8, 3, 4, 0, 1, 0, 5, 5, 8, 4, 8, 9, 6>>)

\* C3: in every report, of either analyser, for an alphabet size >= 1 and a
\* length >= 0, combinations is the int alphabetSize^length exactly; it is
\* 308,915,776 for 26 and 6, 218,340,105,584,896 for 62 and 8, and the
\* password "abcdef" has alphabet size 26 and combinations 26^6.
C3_ExactCombinations ==
  /\ (ReturnedFrom("analyze_password") /\ call.args[1] >= 0
        /\ ret.value.charset_size >= 1) =>
       IsPower(ret.value.classical_combinations, ret.value.charset_size, call.args[1])
  /\ ReturnedFrom("analyze") =>
       IsPower(ret.value.classical.combinations, ret.value.charsets.alphabet_size,
               Len(call.args[1]))
  /\ (ReturnedFrom("analyze_password") /\ call.args = <<6, TRUE, FALSE, FALSE, FALSE>>) =>
       ret.value.classical_combinations = PyInt(Pow26_6)
  /\ (ReturnedFrom("analyze_password") /\ call.args = <<8, TRUE, TRUE, TRUE, FALSE>>) =>
       ret.value.classical_combinations = PyInt(Pow62_8)
  /\ (ReturnedFrom("analyze") /\ call.args[1] = <<97, 98, 99, 100, 101, 102>>) =>
       /\ ret.value.charsets.alphabet_size = 26
       /\ ret.value.classical.combinations = PyInt(Pow26_6)

\* C3 at work: a report whose combinations need more than 64 bits
C3_Witness ==
  /\ ReturnedFrom("analyze_password")
  /\ call.args[1] >= 0
  /\ ret.value.charset_size >= 1
  /\ ret.value.classical_combinations.ty = "int"
  /\ BigBitLen(ret.value.classical_combinations.m) > 64

\* C3 for the string analyser: the report of "abcdef"
C3_ExampleReached ==
  /\ ReturnedFrom("analyze")
  /\ call.args[1] = <<97, 98, 99, 100, 101, 102>>
  /\ ret.value.classical.combinations = PyInt(Pow26_6)

\* sqrt(combinations) / 10^12 as a float
AtQuantumRate(combinations) ==
  FDiv(FSqrt(ToFloat(combinations)), FromBig(BigPow(10, 12)))

\* C4: in every report, of either analyser, the quantum crack time is
\* sqrt(combinations) / 10^12 seconds (analyze_password reports it formatted),
\* 10^12 being a rate other than the classical 10^8.
C4_QuantumRate ==
  /\ ReturnedFrom("analyze_password") =>
       ret.value.quantum_time = format_time(AtQuantumRate(ret.value.classical_combinations))
  /\ ReturnedFrom("analyze") =>
       ret.value.quantum.quantum_crack_time_seconds
         = PyFloat(AtQuantumRate(ret.value.classical.combinations))

\* what the code does: analyze_password divides by its quantum_speed 10^12;
\* analyze divides sqrt(N) by GUESSES_PER_SEC, the classical rate 10^8
C4_Observed ==
  /\ ReturnedFrom("analyze_password") =>
       /\ analyzer.quantum_speed = BigPow(10, 12)
       /\ ret.value.quantum_time = format_time(AtQuantumRate(ret.value.classical_combinations))
  /\ ReturnedFrom("analyze") =>
       /\ tool.GUESSES_PER_SEC = BigPow(10, 8)
       /\ ret.value.quantum.quantum_crack_time_seconds
            = PyFloat(FDiv(FSqrt(ToFloat(ret.value.classical.combinations)),
                           FromBig(BigPow(10, 8))))

\* analyze_password(12) with the four classes: alphabet size 70
IsSeventyTwelve == CalledWith("analyze_password") /\ call.args = <<12, TRUE, TRUE, TRUE, TRUE>>

\* quantum_attempts / quantum_speed of a report
SecondsOf(report) == FDiv(AsFloat(report.quantum_attempts), FromBig(analyzer.quantum_speed))

Adjacent(x, y) == x = y \/ FPred(x) = y \/ FPred(y) = x

SpeedupCalls == {"apply_grovers_speedup", "simulate_quantum_threat"}
\* the call before was the other analyser's, on the same combinations
OtherVariantBefore ==
  /\ pc = "done"
  /\ call.fn \in SpeedupCalls
  /\ prev.call.fn \in SpeedupCalls
  /\ prev.call.fn # call.fn
  /\ prev.call.args = call.args

\* C6, as stated: for combinations > 0 the speedup factor is combinations /
\* sqrt(combinations) and that equals sqrt(combinations), the two analysers
\* return the same factor for the same combinations, and the factor is 1 for
\* combinations = 0.
C6_ExactIdentity ==
  /\ (ReturnedFrom("apply_grovers_speedup") /\ ~IsZeroNum(call.args[1])) =>
       /\ ret.value[2]
            = PyFloat(FDiv(ToFloat(call.args[1]), FSqrt(ToFloat(call.args[1]))))
       /\ ret.value[2] = PyFloat(FSqrt(ToFloat(call.args[1])))
  /\ (ReturnedFrom("simulate_quantum_threat") /\ ~IsZeroNum(call.args[1])) =>
       ret.value[2] = PyFloat(FSqrt(ToFloat(call.args[1])))
  /\ (OtherVariantBefore /\ ~IsZeroNum(call.args[1])) =>
       ret.value[2] = prev.ret.value[2]
  /\ (pc = "done" /\ call.fn \in SpeedupCalls /\ IsZeroNum(call.args[1])) =>
       ret.status = "returned" /\ ret.value[2] = PyInt(BigOne)

\* C6, amended: for combinations > 0 analyze_password's factor is the float
\* combinations / sqrt(combinations), which is the float sqrt(combinations) or
\* a neighbour of it; analyze's factor is the float sqrt(combinations); the two
\* factors for the same combinations are equal or neighbouring floats; the
\* factor is 1 for combinations = 0.
C6_IdentityUpToRounding ==
  /\ (ReturnedFrom("apply_grovers_speedup") /\ ~IsZeroNum(call.args[1])) =>
       /\ ret.value[2]
            = PyFloat(FDiv(ToFloat(call.args[1]), FSqrt(ToFloat(call.args[1]))))
       /\ Adjacent(AsFloat(ret.value[2]), FSqrt(ToFloat(call.args[1])))
  /\ (ReturnedFrom("simulate_quantum_threat") /\ ~IsZeroNum(call.args[1])) =>
       ret.value[2] = PyFloat(FSqrt(ToFloat(call.args[1])))
  /\ (OtherVariantBefore /\ ~IsZeroNum(call.args[1])) =>
       Adjacent(AsFloat(ret.value[2]), AsFloat(prev.ret.value[2]))
  /\ (pc = "done" /\ call.fn \in SpeedupCalls /\ IsZeroNum(call.args[1])) =>
       ret.status = "returned" /\ ret.value[2] = PyInt(BigOne)

\* C6 at work: the two analysers called one after the other on the same
\* combinations > 0 and returning different factors
C6_Witness ==
  /\ OtherVariantBefore
  /\ ~IsZeroNum(call.args[1])
  /\ ret.value[2] # prev.ret.value[2]

\* C6 at zero: both analysers called on combinations = 0
C6_ZeroReached ==
  /\ OtherVariantBefore
  /\ IsZeroNum(call.args[1])
  /\ ret.value[2] = PyInt(BigOne)

\* base64 decoding and hex parsing, as the receiver of the report does them
B64Value(c) ==
  IF c \in 65..90 THEN c - 65
  ELSE IF c \in 97..122 THEN c - 71
  ELSE IF c \in 48..57 THEN c + 4
  ELSE IF c = 43 THEN 62
  ELSE 63
B64Group(q) ==
  LET v(i) == IF q[i] = 61 THEN 0 ELSE B64Value(q[i])
      n == ((v(1) * 64 + v(2)) * 64 + v(3)) * 64 + v(4)
  IN SubSeq(<< n \div 65536, (n \div 256) % 256, n % 256 >>, 1,
            3 - Cardinality({i \in 1..4 : q[i] = 61}))
RECURSIVE B64Decode(_)
B64Decode(s) ==
  IF s = << >> THEN << >>
  ELSE B64Group(SubSeq(s, 1, 4)) \o B64Decode(SubSeq(s, 5, Len(s)))
HexDigitValue(c) == IF c \in 48..57 THEN c - 48 ELSE c - 87
RECURSIVE ParseHexDigits(_)
ParseHexDigits(s) ==
  IF s = << >> THEN 0
  ELSE 16 * ParseHexDigits(SubSeq(s, 1, Len(s) - 1)) + HexDigitValue(s[Len(s)])
\* int(s, 16) of a string "0x..."
ParseHex(s) == ParseHexDigits(SubSeq(s, 3, Len(s)))
\* the bytes recovered from a ciphertext and a fingerprint
Decrypt(ciphertext, fingerprint) ==
  [i \in DOMAIN B64Decode(ciphertext) |->
     XorBits(B64Decode(ciphertext)[i], ParseHex(fingerprint) % 256, 8)]

\* C7: for every generated password and every measured key, base64-decoding
\* the ciphertext and XOR-ing each byte with the key parsed from the hex
\* fingerprint, mod 256, gives back the bytes of the generated password.
C7_RoundTrip ==
  ReturnedFrom("simulate_qkd_and_encrypt") =>
    Decrypt(ret.value.ciphertext, ret.value.qkd_key_fingerprint) = Encode(call.args[1])

\* C7 at work: a key with its top bit set, so that the ciphertext is not the
\* encoding of the password itself
C7_Witness ==
  /\ ReturnedFrom("simulate_qkd_and_encrypt")
  /\ ParseHex(ret.value.qkd_key_fingerprint) >= 128
  /\ B64Decode(ret.value.ciphertext) # Encode(call.args[1])
  /\ Len(B64Decode(ret.value.ciphertext)) = Len(call.args[1])

\* the entropy v is at least the threshold t
AtLeast(v, t) == IF v.ty = "int" THEN BigToInt(v.m) >= t ELSE FLe(FromNat(t), AsFloat(v))
\* the number of cuts at or below the entropy: its tier, from 0
TierOf(v, cuts) == Cardinality({ t \in cuts : AtLeast(v, t) })
CutsA == {40, 60, 80}
CutsB == {40, 60, 80, 128}
TiersA == <<"WEAK", "MEDIUM", "STRONG", "VERY STRONG">>
TiersB == <<"Very Weak", "Weak", "Moderate", "Strong", "Very Strong">>
RankIn(tiers, label) == CHOOSE i \in DOMAIN tiers : tiers[i] = label
\* the rank of the tier a classifier returned
RankOf(fn, value) ==
  IF fn = "classify_strength" THEN RankIn(TiersA, value[1]) ELSE RankIn(TiersB, value)
Classifiers == {"classify_strength", "classify_security"}
NumLe(a, b) == FLe(ToFloat(a), ToFloat(b))

\* C8: each classifier returns, for every entropy, the one tier of the
\* half-open interval the entropy lies in - cut at 40, 60, 80 into 4 tiers by
\* classify_strength and at 40, 60, 80, 128 into 5 tiers by classify_security,
\* a threshold value lying in the higher tier - and a larger entropy never
\* gets a lower tier.
C8_Classification ==
  /\ CalledWith("classify_strength") =>
       /\ ret.status = "returned"
       /\ ret.value[1] = TiersA[TierOf(call.args[1], CutsA) + 1]
  /\ CalledWith("classify_security") =>
       /\ ret.status = "returned"
       /\ ret.value = TiersB[TierOf(call.args[1], CutsB) + 1]
  /\ (pc = "done" /\ call.fn \in Classifiers /\ prev.call.fn = call.fn
        /\ NumLe(prev.call.args[1], call.args[1])) =>
       RankOf(call.fn, prev.ret.value) <= RankOf(call.fn, ret.value)

\* C8 at work: 128 classified after the float just below it
C8_Witness ==
  /\ CalledWith("classify_security")
  /\ call.args[1] = PyInt(BigFromInt(128))
  /\ ret.value = "Very Strong"
  /\ prev.call.fn = "classify_security"
  /\ prev.call.args[1] = PyFloat(FPred(FromNat(128)))
  /\ prev.ret.value = "Strong"

\* C8 for the four-tier classifier: 80 classified after the float just below it
C8_FourTiersReached ==
  /\ CalledWith("classify_strength")
  /\ call.args[1] = PyFloat(FromNat(80))
  /\ ret.value[1] = "VERY STRONG"
  /\ prev.call.fn = "classify_strength"
  /\ prev.call.args[1] = PyFloat(FPred(FromNat(80)))
  /\ prev.ret.value[1] = "STRONG"

\* the entropy of a report of analyze, before its rounding for the report
EntropyOf(report) == FMulInt(report.length, Log2(report.charsets.alphabet_size))

\* C9: the suggestions of every report are, in this order and once each: the
\* length remark iff the length is below 12, the digit remark iff the digit
\* class (0-9) is absent from the charset profile, the symbol remark iff the
\* symbol class is absent from it, the passphrase remark iff the entropy is
\* below 60; and nothing else.
C9_Suggestions ==
  ReturnedFrom("analyze") =>
    ret.value.suggestions =
      (IF ret.value.length < 12
         THEN <<"Increase length to at least 12 characters.">> ELSE << >>)
      \o (IF ~ret.value.charsets.digits THEN <<"Include numbers (0-9).">> ELSE << >>)
      \o (IF ~ret.value.charsets.symbols
            THEN <<"Add special symbols (e.g., @, #, $).">> ELSE << >>)
      \o (IF FLt(EntropyOf(ret.value), FromNat(60))
            THEN <<"Current entropy is low; use a passphrase of 4+ random words.">>
            ELSE << >>)

\* what the code does: the digit remark is left out whenever isdigit() holds
\* of some character, in the class 0-9 or not
C9_Observed ==
  ReturnedFrom("analyze") =>
    ret.value.suggestions =
      (IF ret.value.length < 12
         THEN <<"Increase length to at least 12 characters.">> ELSE << >>)
      \o (IF ~ \E i \in DOMAIN call.args[1] : IsDigitChar(call.args[1][i])
            THEN <<"Include numbers (0-9).">> ELSE << >>)
      \o (IF ~ret.value.charsets.symbols
            THEN <<"Add special symbols (e.g., @, #, $).">> ELSE << >>)
      \o (IF FLt(EntropyOf(ret.value), FromNat(60))
            THEN <<"Current entropy is low; use a passphrase of 4+ random words.">>
            ELSE << >>)

\* C10: an analysis requested with a length below 0 is aborted with
\* InvalidLength before anything is computed: no report, no combinations, no
\* crack time, no key.
C10_InvalidLength ==
  (CalledWith("analyze_password") /\ call.args[1] < 0) =>
    /\ ret.status = "raised"
    /\ ret.exc = "InvalidLength"
    /\ ret.steps = << >>

\* what the code does with a length below 0: no check of the length; with no
\* class chosen 0 ** length raises ZeroDivisionError, otherwise combinations (a
\* float) and both crack times are computed and the circuit library refuses
\* the register of negative size
C10_Observed ==
  (CalledWith("analyze_password") /\ call.args[1] < 0) =>
    /\ ret.status = "raised"
    /\ IF NoFlags(call.args)
         THEN ret.exc = "ZeroDivisionError" /\ ret.steps = <<"k">>
         ELSE ret.exc = "CircuitError" /\ ret.steps = StepsOfThreatAnalysis

\* what the code does with a length whose combinations exceed the float
\* range: no ceiling; the exception is an OverflowError raised after the
\* combinations were computed
C10_NoCeiling ==
  /\ (CalledWith("analyze_password") /\ call.args = <<HugeLenA, TRUE, TRUE, TRUE, TRUE>>) =>
       ret.status = "raised" /\ ret.exc = "OverflowError"
         /\ ret.steps = <<"k", "combinations">>
  /\ (CalledWith("analyze") /\ call.args[1] = Fill(<<97, 90, 53, 64, 32>>, HugeLenB)) =>
       ret.status = "raised" /\ ret.exc = "OverflowError"

\* s is a string of n characters '0' or '1'
IsBitString(s, n) == Len(s) = n /\ \A i \in DOMAIN s : s[i] \in {48, 49}
\* the unsigned binary number the bit string s writes, most significant bit first
RECURSIVE BitsValue(_)
BitsValue(s) ==
  IF s = << >> THEN 0 ELSE 2 * BitsValue(SubSeq(s, 1, Len(s) - 1)) + (s[Len(s)] - 48)
\* min(n, 8)
KeySize(n) == IF n <= 8 THEN n ELSE 8

\* C11: every key create_quantum_key returns for a length >= 0 is a string of
\* exactly min(length, 8) bits; the key of simulate_qkd_and_encrypt is a
\* string of exactly 8 bits, key_int is that string read as an unsigned binary
\* number, 0 <= key_int < 2^8, and the reported fingerprint is its hex form.
C11_KeyShape ==
  /\ (ReturnedFrom("create_quantum_key") /\ call.args[1] >= 0) =>
       /\ IsBitString(ret.value, KeySize(call.args[1]))
       /\ BitsValue(ret.value) \in 0..(2^KeySize(call.args[1]) - 1)
  /\ ReturnedFrom("simulate_qkd_and_encrypt") =>
       /\ IsBitString(ret.locals.key_bits, 8)
       /\ ret.locals.key_int = BitsValue(ret.locals.key_bits)
       /\ ret.locals.key_int \in 0..(2^8 - 1)
       /\ ParseHex(ret.value.qkd_key_fingerprint) = ret.locals.key_int

\* C11 at work: a key of 3 bits generated for the requested length 3, not all
\* bits equal
C11_Witness ==
  /\ ReturnedFrom("create_quantum_key")
  /\ call.args[1] = 3
  /\ Len(ret.value) = 3
  /\ BitsValue(ret.value) = 5

\* C11 at the cap: a key of 8 bits for a requested length above 8, and the top
\* key of the string analyser
C11_CapReached ==
  \/ /\ ReturnedFrom("create_quantum_key")
     /\ call.args[1] > 8
     /\ BitsValue(ret.value) = 255
  \/ /\ ReturnedFrom("simulate_qkd_and_encrypt")
     /\ ret.locals.key_int = 255

\* the printable characters other than the space: the letters, the digits and
\* the punctuation
IsPrintable16(s) == Len(s) = 16 /\ \A i \in DOMAIN s : s[i] \in 33..126
\* the generated password of a report and the bytes its ciphertext decrypts to
GeneratedOf(report) == report.password_suggestions[2].value
DecryptedOf(report) ==
  Decrypt(report.password_suggestions[3].ciphertext,
          report.password_suggestions[3].qkd_key_fingerprint)
\* the generated passwords the reports of analyze(password) can hold
PossibleGenerated(password) ==
  { GeneratedOf(o.value) : o \in { x \in analyze(tool, password) : x.status = "returned" } }
\* the strings the generator is sampled from that the claim allows
AllowedGenerated == { g \in GeneratedSamples : IsPrintable16(g) }

\* C12: in every report of analyze the generated password is a string of 16
\* letters, digits and punctuation characters; the set of generated passwords
\* possible for the input is the set of all such strings, one and the same
\* set for every input; and the ciphertext decrypts to the generated
\* password, whatever the input.
C12_InputIndependence ==
  ReturnedFrom("analyze") =>
    /\ IsPrintable16(GeneratedOf(ret.value))
    /\ PossibleGenerated(call.args[1]) = AllowedGenerated
    /\ DecryptedOf(ret.value) = Encode(GeneratedOf(ret.value))

\* C12 at work: a report for a two-character input whose generated password
\* is one of several possible ones and differs from the input
C12_Witness ==
  /\ ReturnedFrom("analyze")
  /\ Len(call.args[1]) = 2
  /\ GeneratedOf(ret.value) = GeneratedSample(1)
  /\ Cardinality(PossibleGenerated(call.args[1])) > 1
  /\ DecryptedOf(ret.value) # Encode(call.args[1])

\* combinations / classical_speed of a report of analyze_password
ClassicalSecondsOf(report) ==
  NumDivInt(report.classical_combinations, analyzer.classical_speed)
\* the report of analyze_password shows the two durations it computed
ShowsItsSeconds(report) ==
  /\ report.classical_time = format_time(ClassicalSecondsOf(report))
  /\ report.quantum_time = format_time(SecondsOf(report))
\* every figure of the report lo is at most the one of the report hi
NoLargerA(lo, hi) ==
  /\ BigLe(lo.classical_combinations.m, hi.classical_combinations.m)
  /\ NumLe(lo.entropy, hi.entropy)
  /\ FLe(ClassicalSecondsOf(lo), ClassicalSecondsOf(hi))
  /\ FLe(SecondsOf(lo), SecondsOf(hi))
NoLargerB(lo, hi) ==
  /\ BigLe(lo.classical.combinations.m, hi.classical.combinations.m)
  /\ NumLe(lo.classical.entropy_bits, hi.classical.entropy_bits)
  /\ NumLe(lo.classical.crack_time_seconds, hi.classical.crack_time_seconds)
  /\ NumLe(lo.quantum.quantum_crack_time_seconds, hi.quantum.quantum_crack_time_seconds)
\* the reports analyze_password can return for a length and the flags of args
ReportsA(length, args) ==
  { o.value : o \in { x \in analyze_password(analyzer, length, args[2], args[3],
                                              args[4], args[5]) :
                        x.status = "returned" } }
ReportsB(password) ==
  { o.value : o \in { x \in analyze(tool, password) : x.status = "returned" } }
\* the largest member of S, S being finite and not empty
Largest(S) == CHOOSE x \in S : \A y \in S : y <= x
\* the nearest length of S below m, none being negative
NearestLengths(m, S) ==
  IF \E l \in S : 0 <= l /\ l < m
    THEN { Largest({ l \in S : 0 <= l /\ l < m }) } ELSE { }
\* the beginning of the password one character shorter and its beginning of
\* the nearest modelled length, where they have the password's alphabet size
ShorterSameAlphabet(password) ==
  { q \in { SubSeq(password, 1, j) :
              j \in NearestLengths(Len(password), PwLens \cup {Len(password) - 1})
                      \cup NearestLengths(Len(password), PwLens) } :
      detect_charsets(q)[2] = detect_charsets(password)[2] }

\* C13: a report for length m and an alphabet of size >= 1 has combinations,
\* entropy, classical crack time and quantum crack time each at least those
\* of every report for a length n <= m and the same alphabet (analyze_password:
\* the same flags, the times being the seconds its report shows formatted;
\* analyze: a shorter beginning of the password with the same alphabet size).
\* Each report is compared with those of the nearest length below; the order
\* being transitive, that covers every n <= m.
C13_MonotoneInLength ==
  /\ ReturnedFrom("analyze_password") =>
       /\ ret.value.charset_size >= 1
       /\ ShowsItsSeconds(ret.value)
       /\ \A n \in NearestLengths(call.args[1], Lengths) :
            \A lo \in ReportsA(n, call.args) : NoLargerA(lo, ret.value)
  /\ ReturnedFrom("analyze") =>
       /\ ret.value.charsets.alphabet_size >= 1
       /\ \A q \in ShorterSameAlphabet(call.args[1]) :
            \A lo \in ReportsB(q) : NoLargerB(lo, ret.value)

\* C13 at work: a report that is compared with one for a shorter length whose
\* combinations are strictly fewer
C13_Witness ==
  \/ /\ ReturnedFrom("analyze_password")
     /\ call.args[1] = MaxLen
     /\ \E lo \in ReportsA(MaxLen - 1, call.args) :
          /\ NoLargerA(lo, ret.value)
          /\ lo.classical_combinations # ret.value.classical_combinations
  \/ /\ ReturnedFrom("analyze")
     /\ Len(call.args[1]) = MaxPwLen
     /\ \E q \in ShorterSameAlphabet(call.args[1]) : \E lo \in ReportsB(q) :
          /\ NoLargerB(lo, ret.value)
          /\ lo.classical.combinations # ret.value.classical.combinations

\* the fields of a report of analyze_password that hold a Python number
NumberFieldsA == {"classical_combinations", "entropy", "quantum_attempts"}
\* the call of the worked example: 6 lowercase letters, and the seconds x lie
\* between 3.08 and 3.10
IsTwentySixSix ==
  CalledWith("analyze_password") /\ call.args = <<6, TRUE, FALSE, FALSE, FALSE>>
AboutThreePointONine(x) ==
  /\ FLe(FDiv(FromNat(308), FromNat(100)), x)
  /\ FLe(x, FDiv(FromNat(310), FromNat(100)))

\* C14, as stated: every report holds, as a number, the classical crack time
\* combinations / 10^8 seconds; for alphabet size 26 and length 6 it is about
\* 3.09 seconds.
C14_RawSecondsRetained ==
  /\ ReturnedFrom("analyze") =>
       /\ ret.value.classical.crack_time_seconds
            = PyFloat(IntTrueDiv(ret.value.classical.combinations.m, BigPow(10, 8)))
       /\ call.args[1] \in ExamplePasswords =>
            AboutThreePointONine(AsFloat(ret.value.classical.crack_time_seconds))
  /\ ReturnedFrom("analyze_password") =>
       /\ \E f \in NumberFieldsA :
            ret.value[f] = PyFloat(NumDivInt(ret.value.classical_combinations, BigPow(10, 8)))
       /\ IsTwentySixSix =>
            AboutThreePointONine(NumDivInt(ret.value.classical_combinations, BigPow(10, 8)))

\* what the code does: analyze reports the float N / 10^8; analyze_password
\* reports the string format_time makes of combinations / 10^8, for 26^6 the
\* string '3.09e+00 seconds', and none of its numbers is that quotient
C14_Observed ==
  /\ ReturnedFrom("analyze") =>
       /\ ret.value.classical.crack_time_seconds
            = PyFloat(IntTrueDiv(ret.value.classical.combinations.m, BigPow(10, 8)))
       /\ call.args[1] \in ExamplePasswords =>
            AboutThreePointONine(AsFloat(ret.value.classical.crack_time_seconds))
  /\ ReturnedFrom("analyze_password") =>
       /\ ret.value.classical_time
            = format_time(NumDivInt(ret.value.classical_combinations, BigPow(10, 8)))
       /\ \A f \in NumberFieldsA :
            ret.value[f] # PyFloat(NumDivInt(ret.value.classical_combinations, BigPow(10, 8)))
       /\ IsTwentySixSix =>
            /\ AboutThreePointONine(NumDivInt(ret.value.classical_combinations, BigPow(10, 8)))
            /\ ret.value.classical_time
                 = <<51, 46, 48, 57, 101, 43, 48, 48, 32, 115, 101, 99, 111, 110, 100, 115>>

\* the worked example is reached in both analysers
C14_ExampleReached ==
  \/ IsTwentySixSix /\ ret.status = "returned"
  \/ ReturnedFrom("analyze") /\ call.args[1] \in ExamplePasswords

\* the fields of an outcome that no random draw enters: of a report all but
\* the key and the hash (analyze_password) or the generated password and its
\* encryption (analyze), of an exception its type and line
DeterministicPart(fn, r) ==
  IF r.status # "returned" THEN [exc |-> r.exc, line |-> r.line]
  ELSE IF fn = "analyze_password"
    THEN [length |-> r.value.length,
          charset_size |-> r.value.charset_size,
          classical_combinations |-> r.value.classical_combinations,
          entropy |-> r.value.entropy,
          classical_time |-> r.value.classical_time,
          quantum_attempts |-> r.value.quantum_attempts,
          speedup |-> apply_grovers_speedup(r.value.classical_combinations)[2],
          quantum_time |-> r.value.quantum_time,
          classical_strength |-> r.value.classical_strength,
          quantum_vulnerability |-> r.value.quantum_vulnerability]
  ELSE [input_password |-> r.value.input_password,
        length |-> r.value.length,
        charsets |-> r.value.charsets,
        classical |-> r.value.classical,
        quantum |-> r.value.quantum,
        security_classification |-> r.value.security_classification,
        suggestions |-> r.value.suggestions,
        passphrase |-> r.value.password_suggestions[1]]

C15_Interleaved ==
  /\ pc = "done"
  /\ call.fn = "analyze_password"
  /\ prev.call.fn = "analyze"

\* v >= t for a Python number v of any size and a natural number t
NumGe(v, t) ==
  IF v.ty = "int" THEN ~v.neg /\ BigLe(BigFromInt(t), v.m) ELSE FLe(FromNat(t), AsFloat(v))

\* C16: in every report with combinations >= 1 the quantum crack time is at
\* most the classical crack time and the speedup factor is at least 1
\* (analyze_password: the times are the seconds its report shows formatted and
\* the factor is the one apply_grovers_speedup gives for the reported
\* combinations, the report holding none).
C16_QuantumNoSlower ==
  /\ (ReturnedFrom("analyze") /\ NumGe(ret.value.classical.combinations, 1)) =>
       /\ NumLe(ret.value.quantum.quantum_crack_time_seconds,
                ret.value.classical.crack_time_seconds)
       /\ NumGe(ret.value.quantum.speedup_factor, 1)
  /\ (ReturnedFrom("analyze_password") /\ NumGe(ret.value.classical_combinations, 1)) =>
       /\ ShowsItsSeconds(ret.value)
       /\ FLe(SecondsOf(ret.value), ClassicalSecondsOf(ret.value))
       /\ ret.value.quantum_attempts = apply_grovers_speedup(ret.value.classical_combinations)[1]
       /\ NumGe(apply_grovers_speedup(ret.value.classical_combinations)[2], 1)

\* C16 at work: a report of "abcdef" whose quantum time is strictly shorter
\* and whose factor exceeds 17000
C16_Witness ==
  /\ ReturnedFrom("analyze")
  /\ call.args[1] \in ExamplePasswords
  /\ ret.value.quantum.quantum_crack_time_seconds # ret.value.classical.crack_time_seconds
  /\ NumGe(ret.value.quantum.speedup_factor, 17000)

\* C16 at its edge: one combination, equal times and the factor 1
C16_EdgeReached ==
  /\ ReturnedFrom("analyze")
  /\ ret.value.classical.combinations = PyInt(BigOne)
  /\ ret.value.quantum.quantum_crack_time_seconds = ret.value.classical.crack_time_seconds
  /\ ~NumGe(ret.value.quantum.speedup_factor, 2)

\* the level the claim gives a crack time of s seconds
LevelOfSeconds(s) ==
  IF FLt(s, FromNat(3600)) THEN "CRITICAL"
  ELSE IF FLt(s, FromNat(31536000)) THEN "HIGH"
  ELSE "MODERATE"

C17_BoundariesReached ==
  /\ CalledWith("assess_quantum_vulnerability")
  /\ \/ prev.call.args[1] = FPred(FromNat(3600)) /\ ret.value = "CRITICAL"
     \/ prev.call.args[1] = FPred(FromNat(31536000)) /\ ret.value = "HIGH"
     \/ prev.call.args[1] = FromNat(31536000) /\ ret.value = "MODERATE"

\* the same in the reports of analyze_password: the level is the one of the
\* seconds the reported quantum time formats
C17_InReports ==
  ReturnedFrom("analyze_password") =>
    /\ ret.value.quantum_time = format_time(SecondsOf(ret.value))
    /\ ret.value.quantum_vulnerability = LevelOfSeconds(SecondsOf(ret.value))

\* the suggestions hold the passphrase remark
HasPassphraseRemark(suggestions) ==
  \E i \in DOMAIN suggestions :
    suggestions[i] = "Current entropy is low; use a passphrase of 4+ random words."

\* C18: in every report of analyze, a tier of Very Weak or Weak comes with the
\* passphrase remark among the suggestions, and an empty list of suggestions
\* comes with a length of at least 12 and a tier of Moderate, Strong or Very
\* Strong.
C18_TierAndSuggestionsAgree ==
  ReturnedFrom("analyze") =>
    /\ ret.value.security_classification \in {"Very Weak", "Weak"} =>
         HasPassphraseRemark(ret.value.suggestions)
    /\ ret.value.suggestions = << >> =>
         /\ ret.value.length >= 12
         /\ ret.value.security_classification \in {"Moderate", "Strong", "Very Strong"}

\* C18 at work: a report of the tier Weak (entropy from 40 to below 60) with
\* the passphrase remark
C18_Witness ==
  /\ ReturnedFrom("analyze")
  /\ ret.value.security_classification = "Weak"
  /\ HasPassphraseRemark(ret.value.suggestions)

\* C18, second half at work: a report without suggestions
C18_EmptyReached ==
  /\ ReturnedFrom("analyze")
  /\ ret.value.suggestions = << >>
  /\ ret.value.length >= 12
====
